---- MODULE Spec2Model ----
(***************************************************************************)
(* The real-time layer of LAN_Text_Chat (websocket.js): the session        *)
(* registry `clients`, the typing sets, the in-memory ban set, the         *)
(* handlers of the WebSocket events and the command interpreter, together  *)
(* with the tables of the MySQL database the handlers read and write.      *)
(*                                                                         *)
(* Node runs one handler at a time.  A handler runs without interruption   *)
(* up to its next `await db.query(...)`; there it is suspended and kept in *)
(* `tasks` until the query settles.  One action of this module is one such *)
(* uninterrupted run: either the arrival of an event (the code from the    *)
(* start of the handler to its first await) or the resumption of a         *)
(* suspended handler (the query takes effect, or fails, and the code runs  *)
(* to the next await).                                                     *)
(*                                                                         *)
(* Strings are sequences of atoms: "/kick bob" is <<"/","kick"," ","bob">>.*)
(* An atom is a run of characters without '/' and ' ' (or one of these     *)
(* two characters), so trim, startsWith('/'), substring(1), split(' ') and *)
(* join(' ') are computed on the sequence as the code computes them on the *)
(* characters.                                                             *)
(***************************************************************************)
EXTENDS Integers, Sequences, FiniteSets, TLC

\* ------------------------------------------------------------- bounds
\* Connections accepted by wss.on('connection') during a run.
NConn == 3
\* Handlers that may be suspended in a db.query at the same time.
MaxTasks == 2
\* Commands the clients send during a run.
MaxCommands == 2
\* Calls of hasPermission in a run of PermSpec.
MaxCalls == 3

Conn == 1..NConn

\* ---------------------------------------------------------- constants
Null == "null"
FALLBACK_CHANNEL == "#general"

\* const ROLE_HIERARCHY = { 'Admin': 3, 'Moderator': 2, 'User': 1, 'Guest': 0 }
ROLE_HIERARCHY == [Admin |-> 3, Moderator |-> 2, User |-> 1, Guest |-> 0]

\* The comparison of hasPermission written with > in place of >=.
hasPermissionStrict(userRole, requiredRole) ==
    /\ userRole \in DOMAIN ROLE_HIERARCHY
    /\ requiredRole \in DOMAIN ROLE_HIERARCHY
    /\ ROLE_HIERARCHY[userRole] > ROLE_HIERARCHY[requiredRole]

\* hasPermission(userRole, requiredRole).  A role that is no key of
\* ROLE_HIERARCHY reads as undefined, and a comparison with undefined is false.
hasPermission(userRole, requiredRole) ==
    /\ userRole \in DOMAIN ROLE_HIERARCHY
    /\ requiredRole \in DOMAIN ROLE_HIERARCHY
    /\ ROLE_HIERARCHY[userRole] >= ROLE_HIERARCHY[requiredRole]

\* ------------------------------------------------------------ strings
\* A string is a sequence of atoms; a user name is a string of one atom.
S(a) == <<a>>
Sp == " "
Slash == "/"

RECURSIVE TrimStart(_)
TrimStart(s) == IF s # <<>> /\ Head(s) = Sp THEN TrimStart(Tail(s)) ELSE s

RECURSIVE TrimEnd(_)
TrimEnd(s) ==
    IF s # <<>> /\ s[Len(s)] = Sp THEN TrimEnd(SubSeq(s, 1, Len(s) - 1)) ELSE s

\* String.prototype.trim
Trim(s) == TrimEnd(TrimStart(s))

\* No content is taken for a command.
NeverSlash(s) == FALSE

\* content.startsWith('/')
StartsWithSlash(s) == s # <<>> /\ Head(s) = Slash

\* content.substring(1)
Substring1(s) == IF s = <<>> THEN <<>> ELSE Tail(s)

\* s.split(' '): the pieces between the spaces, empty pieces included.
RECURSIVE SplitFrom(_, _, _)
SplitFrom(s, cur, acc) ==
    IF s = <<>> THEN Append(acc, cur)
    ELSE IF Head(s) = Sp THEN SplitFrom(Tail(s), <<>>, Append(acc, cur))
    ELSE SplitFrom(Tail(s), Append(cur, Head(s)), acc)

Split(s) == SplitFrom(s, <<>>, <<>>)

\* parts.join(' ')
RECURSIVE Join(_)
Join(parts) ==
    IF parts = <<>> THEN <<>>
    ELSE IF Len(parts) = 1 THEN parts[1]
    ELSE parts[1] \o <<Sp>> \o Join(Tail(parts))

\* String.prototype.toLowerCase on the atoms the inputs are built from.
LowerAtom(a) ==
    CASE a = "KICK" -> "kick"
      [] a \in {"AWAY", "Away"} -> "away"
      [] OTHER -> a

ToLowerCase(s) == [i \in DOMAIN s |-> LowerAtom(s[i])]

\* array.slice(1)
Slice1(a) == IF a = <<>> THEN <<>> ELSE Tail(a)

\* A room test that takes no room for a direct-message room.
IsNeverDM(room) == FALSE

\* roomName.startsWith('DM:'): room names are atoms, the DM rooms are those
\* getDmRoomName builds.
IsDM(room) == room \in {"DM:u1-u2", "DM:u1-u3", "DM:u2-u3"}

\* ------------------------------------------------ the database at start
\* users: user_id -> row.  Roles are assigned by /api/register from the name's
\* prefix (admin-, mod-); every row starts not banned and online (schema
\* defaults); bob was last seen in '#dev', the others in '#general'.
UserIds == {"u1", "u2", "u3", "u4"}
\* A user id no row has.
UnknownId == "u9"

UserRow(name, role, chan) ==
    [username |-> S(name), user_role |-> role, current_status |-> "online",
     last_seen_channel |-> chan, is_banned |-> FALSE, ban_reason |-> <<>>]

InitUsers ==
    [u \in UserIds |->
        CASE u = "u1" -> UserRow("admin-al", "Admin", FALLBACK_CHANNEL)
          [] u = "u2" -> UserRow("bob", "User", "#dev")
          [] u = "u3" -> UserRow("mod-cy", "Moderator", FALLBACK_CHANNEL)
          [] OTHER -> UserRow("admin-dee", "Admin", FALLBACK_CHANNEL)]

\* channels: channel_name -> row (public channels only at the start).
InitChannels ==
    [c \in {FALLBACK_CHANNEL, "#dev"} |->
        [is_private |-> FALSE, created_by |-> "u1", pinned_message_id |-> Null]]

\* A row of messages.  `old` says that Date.now() has passed timestamp +
\* MESSAGE_EDIT_TTL_MS: it is what the code reads of the two times.
MessageRow(id, channel, author, content, parent) ==
    [id |-> id, channel_name |-> channel, author_id |-> author, content |-> content,
     edited |-> FALSE, parent_message_id |-> parent, is_thread_root |-> parent = Null,
     old |-> FALSE]

\* messages: m1 in '#general', written by bob, and m2 in '#dev', written by
\* admin-al.
InitMessages == {MessageRow("m1", FALLBACK_CHANNEL, "u2", S("hi"), Null),
                 MessageRow("m2", "#dev", "u1", S("hi"), Null)}

\* -------------------------------------------------------------- state
VARIABLES
    wsState,        \* ws.readyState of each connection: OPEN, CLOSING, CLOSED
    currentUserId,  \* the handler closure's currentUserId (= ws.currentUserId)
    clients,        \* the Map clients, in insertion order: <<[id, oid], ...>>
    heap,           \* the session objects (clientData): oid -> fields
    typingUsers,    \* the Map typingUsers: room -> set of user names
    bannedUsers,    \* the Set bannedUsers
    users,          \* table users
    channels,       \* table channels
    channel_members, \* table channel_members: <<channel_name, user_id>>
    messages,       \* table messages
    audit_logs,     \* table audit_logs
    tasks,          \* the handlers suspended in an await
    received,       \* per connection: the 'kicked'/'banned' events delivered to it
    out,            \* the events the last step delivered (ws.send)
    nCommands,      \* the number of commands the clients have sent
    calls,          \* PermSpec only: the calls of hasPermission made so far
    reactions,      \* table reactions, in insertion order: <<[message_id, user_id, emoji], ...>>
    uuids           \* the number of message ids crypto.randomUUID() has produced

vars ==
    <<wsState, currentUserId, clients, heap, typingUsers, bannedUsers, users,
      channels, channel_members, messages, audit_logs, tasks, received, out, nCommands, calls, reactions, uuids>>

MaxOid == Cardinality(UserIds) + 2 * MaxTasks
Oid == 1..MaxOid
NoOid == 0

\* ------------------------------------------------------- the Map clients
Has(cl, id) == \E i \in DOMAIN cl : cl[i].id = id

\* clients.get(id): the session object's oid, NoOid for undefined.
Get(cl, id) ==
    IF Has(cl, id) THEN cl[CHOOSE i \in DOMAIN cl : cl[i].id = id].oid ELSE NoOid

\* clients.set(id, object): an existing key keeps its place in the order.
MapSet(cl, id, oid) ==
    IF Has(cl, id)
    THEN [i \in DOMAIN cl |-> IF cl[i].id = id THEN [id |-> id, oid |-> oid] ELSE cl[i]]
    ELSE Append(cl, [id |-> id, oid |-> oid])

\* clients.delete(id)
RECURSIVE MapDelete(_, _)
MapDelete(cl, id) ==
    IF cl = <<>> THEN <<>>
    ELSE IF Head(cl).id = id THEN MapDelete(Tail(cl), id)
    ELSE <<Head(cl)>> \o MapDelete(Tail(cl), id)

Entries(cl) == {cl[i] : i \in DOMAIN cl}

\* A session object that no Map entry and no suspended handler refers to is
\* garbage; a new object takes the smallest free oid.
Live(cl, ts) ==
    ({e.oid : e \in Entries(cl)} \cup {t.client : t \in ts} \cup {t.target : t \in ts})
        \ {NoOid}

Gc(hp, cl, ts) == [o \in (DOMAIN hp) \cap Live(cl, ts) |-> hp[o]]

NewOid(hp) == CHOOSE o \in Oid \ DOMAIN hp : \A p \in Oid \ DOMAIN hp : o <= p

Extend(hp, o, obj) == [p \in DOMAIN hp \cup {o} |-> IF p = o THEN obj ELSE hp[p]]

\* ------------------------------------------------------------ delivery
\* One step's local view: the readyState of the connections and what has
\* been sent so far.
Msg(to, type, data) ==
    [to |-> to, type |-> type, data |-> data, users |-> {}, typingUsers |-> {}]

\* A send that reaches every open connection, whichever one is named.
sendToEvery(s, ws, type, data) ==
    [s EXCEPT !.o = @ \cup {Msg(c, type, data) : c \in {x \in Conn : s.st[x] = "OPEN"}}]

\* sendToClient(ws, eventType, data): dropped unless ws is OPEN.
sendToClient(s, ws, type, data) ==
    IF s.st[ws] = "OPEN"
    THEN [s EXCEPT !.o = @ \cup {Msg(ws, type, data)}]
    ELSE s

InRoom(cl, hp, room) == {e \in Entries(cl) : hp[e.oid].channel = room}

\* A broadcast that does not look at the room of the sessions.
broadcastAll(s, cl, hp, room, type, data, senderId) ==
    [s EXCEPT !.o = @ \cup
        {Msg(hp[e.oid].ws, type, data) :
            e \in {x \in Entries(cl) :
                      x.id # senderId /\ s.st[hp[x.oid].ws] = "OPEN"}}]

\* broadcast(roomName, eventType, data, senderId)
broadcast(s, cl, hp, room, type, data, senderId) ==
    [s EXCEPT !.o = @ \cup
        {Msg(hp[e.oid].ws, type, data) :
            e \in {x \in InRoom(cl, hp, room) :
                      x.id # senderId /\ s.st[hp[x.oid].ws] = "OPEN"}}]

\* getActiveUsersInRoom(roomName), as the set of the ids
getActiveUsersInRoom(cl, hp, room) == {e.id : e \in InRoom(cl, hp, room)}

\* broadcastPresence(roomName)
broadcastPresence(s, cl, hp, room) ==
    [s EXCEPT !.o = @ \cup
        {[Msg(hp[e.oid].ws, "user_presence", S(room))
            EXCEPT !.users = getActiveUsersInRoom(cl, hp, room)] :
            e \in {x \in InRoom(cl, hp, room) : s.st[hp[x.oid].ws] = "OPEN"}}]

\* ws.close(code, reason): starts the closing handshake of an OPEN socket;
\* the 'close' event is emitted later.
wsClose(s, ws) == [s EXCEPT !.st[ws] = IF @ = "OPEN" THEN "CLOSING" ELSE @]

\* The 'kicked' and 'banned' events among those delivered, added to what each
\* connection has received.
Received(rc, o) ==
    [c \in Conn |-> rc[c] \cup {m.type : m \in {x \in o : x.to = c /\ x.type \in {"kicked", "banned"}}}]

\* broadcast(room, 'typing_status', {channel, typingUsers: Array.from(set)})
broadcastTyping(s, cl, hp, room, set, senderId) ==
    [s EXCEPT !.o = @ \cup
        {[Msg(hp[e.oid].ws, "typing_status", S(room)) EXCEPT !.typingUsers = set] :
            e \in {x \in InRoom(cl, hp, room) :
                      x.id # senderId /\ s.st[hp[x.oid].ws] = "OPEN"}}]

\* ----------------------------------------------------- suspended handlers
\* A suspended handler: its kind and the await it is in (pc), and its locals:
\* ws, userId, the session object `client` (clientData in login), and in
\* handleCommand command, args, roomName, targetClient and targetId.
NoTask ==
    [kind |-> "none", pc |-> "none", ws |-> 0, userId |-> Null, client |-> NoOid,
     command |-> <<>>, args |-> <<>>, room |-> Null, target |-> NoOid,
     targetId |-> Null]

\* What every step does to the connections, the registry, the heap and the
\* suspended handlers, given the step's local view s.
Commit(s, cl, hp, ts) ==
    /\ wsState' = s.st
    /\ out' = s.o
    /\ received' = Received(received, s.o)
    /\ clients' = cl
    /\ tasks' = ts
    /\ heap' = Gc(hp, cl, ts)

Start == [st |-> wsState, o |-> {}]

\* The messages of the error events.
ErrInternal == S("Internal error processing request.")
ErrAuth == S("Authentication required.")
ErrInvalidUser == S("Invalid User ID. Please register.")
ErrUnknown(command) == <<"Unknown command:">> \o command
ErrDenied(command) == <<"Permission denied or missing username. Usage:">> \o command
ErrAdmin == S("Cannot moderate another Admin.")
ErrRequiresAdmin == S("Permission denied. Requires Admin role.")
ErrNotFound(name) == <<"User">> \o name \o <<"not found or already disconnected.">>
ErrStatus == S("Invalid status. Use: online, away, or dnd.")
ErrPinUsage == S("Usage: /pin [messageId]")
ErrPinNotFound == S("Message not found in this channel.")
ErrPinDb == S("DB Error pinning message.")
DefaultBanned == S("You are banned from this server.")
DefaultReason == S("Banned by Admin command.")
System == S("system")

\* ---------------------------------------------------------------- Init
Rooms == {FALLBACK_CHANNEL, "#dev", "#ops", "DM:u1-u2", "DM:u1-u3", "DM:u2-u3"}

Init ==
    /\ wsState = [c \in Conn |-> "OPEN"]
    /\ currentUserId = [c \in Conn |-> Null]
    /\ clients = <<>>
    /\ heap = [o \in {} |-> NoTask]
    /\ typingUsers = [r \in Rooms |-> {}]
    /\ bannedUsers = {}
    /\ users = InitUsers
    /\ channels = InitChannels
    /\ channel_members = {}
    /\ messages = InitMessages
    /\ audit_logs = {}
    /\ tasks = {}
    /\ received = [c \in Conn |-> {}]
    /\ out = {}
    /\ nCommands = 0
    /\ calls = <<>>
    /\ reactions = <<>>
    /\ uuids = 0

\* --------------------------------------------------------------- login
\* ws.on('message') with data.type === 'login', up to the first await.
Login(c, userId, inputUsername) ==
    LET t == [NoTask EXCEPT !.kind = "login", !.pc = "select", !.ws = c,
                            !.userId = userId, !.args = <<inputUsername>>]
    IN  /\ wsState[c] = "OPEN"
        /\ Cardinality(tasks) < MaxTasks
        /\ t \notin tasks
        /\ currentUserId' = [currentUserId EXCEPT ![c] = userId]
        /\ Commit(Start, clients, heap, tasks \cup {t})
        /\ UNCHANGED <<typingUsers, bannedUsers, users, channels, channel_members,
                       messages, audit_logs, calls, reactions, uuids>>

\* The login handler without its duplicate-login block.
PreemptKeep(s, cl, hp, userId) == [s |-> s, cl |-> cl]

\* if (clients.has(userId)) { sendToClient(old.ws, 'kicked', ...);
\*   old.ws.close(1000, 'Duplicate Login'); clients.delete(userId); }
Preempt(s, cl, hp, userId) ==
    IF Has(cl, userId)
    THEN LET old == hp[Get(cl, userId)].ws
         IN  [s |-> wsClose(sendToClient(s, old, "kicked",
                                S("Another connection established with your user ID.")), old),
              cl |-> MapDelete(cl, userId)]
    ELSE [s |-> s, cl |-> cl]

\* The login handler from the answer of SELECT * FROM users to the call of
\* getAuthorizedChannels.
LoginSelect(t, ok) ==
    /\ t \in tasks /\ t.kind = "login" /\ t.pc = "select"
    /\ LET rest == tasks \ {t}
       IN  IF ~ok
           THEN Commit(sendToClient(Start, t.ws, "error", ErrInternal),
                       clients, heap, rest)
           ELSE IF t.userId \notin DOMAIN users
           THEN Commit(wsClose(sendToClient(Start, t.ws, "error", ErrInvalidUser), t.ws),
                       clients, heap, rest)
           ELSE LET pu == users[t.userId] IN
               IF pu.username \in bannedUsers \/ pu.is_banned
               THEN Commit(wsClose(sendToClient(Start, t.ws, "banned",
                                IF pu.ban_reason # <<>> THEN pu.ban_reason
                                ELSE DefaultBanned), t.ws),
                           clients, heap, rest)
               ELSE LET p == Preempt(Start, clients, heap, t.userId)
                        oid == NewOid(heap)
                        clientData == [ws |-> t.ws, username |-> t.args[1],
                                       channel |-> pu.last_seen_channel,
                                       role |-> pu.user_role,
                                       status |-> pu.current_status]
                    IN  Commit(p.s, MapSet(p.cl, t.userId, oid),
                               Extend(heap, oid, clientData),
                               rest \cup {[t EXCEPT !.pc = "channels", !.client = oid]})
    /\ UNCHANGED <<currentUserId, typingUsers, bannedUsers, users, channels,
                   channel_members, messages, audit_logs, calls, reactions, uuids>>

\* A list that is not read from the channels table: every public channel the
\* database started with.
getStartChannels(userId, ok) == {FALLBACK_CHANNEL, "#dev"}

\* getAuthorizedChannels(userId): the public channels and the private ones the
\* user is a member of; a failed query gives the fallback list.
getAuthorizedChannels(userId, ok) ==
    IF ok
    THEN {c \in DOMAIN channels :
            \/ ~channels[c].is_private
            \/ <<c, userId>> \in channel_members}
    ELSE {FALLBACK_CHANNEL}

\* From the answer of getAuthorizedChannels to the next await.
LoginChannels(t, ok) ==
    /\ t \in tasks /\ t.kind = "login" /\ t.pc = "channels"
    /\ LET isChannelAccessible ==
               heap[t.client].channel \in getAuthorizedChannels(t.userId, ok)
           rest == tasks \ {t}
       IN  IF ~isChannelAccessible
           THEN Commit(Start, clients,
                       [heap EXCEPT ![t.client].channel = FALLBACK_CHANNEL],
                       rest \cup {[t EXCEPT !.pc = "update"]})
           ELSE Commit(Start, clients, heap, rest \cup {[t EXCEPT !.pc = "room"]})
    /\ UNCHANGED <<currentUserId, typingUsers, bannedUsers, users, channels,
                   channel_members, messages, audit_logs, calls, reactions, uuids>>

\* UPDATE users SET last_seen_channel = '#general' WHERE user_id = ?
LoginUpdate(t, ok) ==
    /\ t \in tasks /\ t.kind = "login" /\ t.pc = "update"
    /\ LET rest == tasks \ {t}
       IN  IF ok
           THEN /\ users' = [users EXCEPT ![t.userId].last_seen_channel = FALLBACK_CHANNEL]
                /\ Commit(Start, clients, heap, rest \cup {[t EXCEPT !.pc = "room"]})
           ELSE /\ users' = users
                /\ Commit(sendToClient(Start, t.ws, "error", ErrInternal),
                          clients, heap, rest)
    /\ UNCHANGED <<currentUserId, typingUsers, bannedUsers, channels,
                   channel_members, messages, audit_logs, calls, reactions, uuids>>

\* From the answer of getRoomData (which catches its own errors) to the end
\* of the login handler.
LoginRoom(t) ==
    /\ t \in tasks /\ t.kind = "login" /\ t.pc = "room"
    /\ LET room == heap[t.client].channel
           s1 == sendToClient(Start, t.ws, "initial_state", S(room))
           s2 == sendToClient(s1, t.ws, "message_history", S(room))
           s3 == IF ~IsDM(room)
                 THEN broadcast(s2, clients, heap, room, "channel_message", System, t.userId)
                 ELSE s2
           s4 == broadcastPresence(s3, clients, heap, room)
           s5 == sendToClient(s4, t.ws, "login_success", heap[t.client].username)
       IN  Commit(s5, clients, heap, tasks \ {t})
    /\ UNCHANGED <<currentUserId, typingUsers, bannedUsers, users, channels,
                   channel_members, messages, audit_logs, calls, reactions, uuids>>

\* --------------------------------------------------------------- close
\* ws.on('close'), run when the connection c has just become CLOSED.
CloseHandler(c) ==
    LET userId == currentUserId[c]
        client == Get(clients, userId)
        s0 == [st |-> [wsState EXCEPT ![c] = "CLOSED"], o |-> {}]
    IN  IF client # NoOid
        THEN LET disconnectedChannel == heap[client].channel
                 s1 == IF ~IsDM(disconnectedChannel)
                       THEN broadcast(s0, clients, heap, disconnectedChannel,
                                      "channel_message", System, Null)
                       ELSE s0
                 wasTyping == heap[client].username \in typingUsers[disconnectedChannel]
                 typingSet == typingUsers[disconnectedChannel] \ {heap[client].username}
                 s2 == IF wasTyping
                       THEN broadcastTyping(s1, clients, heap, disconnectedChannel,
                                            typingSet, Null)
                       ELSE s1
                 cl == MapDelete(clients, userId)
                 s3 == broadcastPresence(s2, cl, heap, disconnectedChannel)
             IN  /\ typingUsers' = [typingUsers EXCEPT ![disconnectedChannel] = typingSet]
                 /\ Commit(s3, cl, heap, tasks)
        ELSE /\ typingUsers' = typingUsers
             /\ Commit(s0, clients, heap, tasks)

\* The peer closes an open connection: the socket becomes CLOSED and 'close'
\* is emitted.
ClientClose(c) ==
    /\ wsState[c] = "OPEN"
    /\ CloseHandler(c)
    /\ UNCHANGED <<currentUserId, bannedUsers, users, channels, channel_members,
                   messages, audit_logs, calls, reactions, uuids>>

\* The closing handshake that ws.close() started ends: 'close' is emitted.
CloseEvent(c) ==
    /\ wsState[c] = "CLOSING"
    /\ CloseHandler(c)
    /\ UNCHANGED <<currentUserId, bannedUsers, users, channels, channel_members,
                   messages, audit_logs, calls, reactions, uuids>>

\* ------------------------------------------------------- typing_update
\* An event other than login starts with the check
\* if (!currentUserId || !clients.has(currentUserId)) -> 'Authentication required.'
Authenticated(c) == currentUserId[c] # Null /\ Has(clients, currentUserId[c])

TypingUpdate(c, isTyping) ==
    /\ wsState[c] = "OPEN"
    /\ LET cur == currentUserId[c]
       IN  IF ~Authenticated(c)
           THEN /\ typingUsers' = typingUsers
                /\ Commit(sendToClient(Start, c, "error", ErrAuth), clients, heap, tasks)
           ELSE LET client == heap[Get(clients, cur)]
                    typingSet == IF isTyping
                                 THEN typingUsers[client.channel] \cup {client.username}
                                 ELSE typingUsers[client.channel] \ {client.username}
                    s1 == broadcastTyping(Start, clients, heap, client.channel,
                                          typingSet, cur)
                    s2 == IF s1.st[c] = "OPEN"
                          THEN [s1 EXCEPT !.o = @ \cup
                                  {[Msg(c, "typing_status", S(client.channel))
                                      EXCEPT !.typingUsers = typingSet]}]
                          ELSE s1
                IN  /\ typingUsers' = [typingUsers EXCEPT ![client.channel] = typingSet]
                    /\ Commit(s2, clients, heap, tasks)
    /\ UNCHANGED <<currentUserId, bannedUsers, users, channels, channel_members,
                   messages, audit_logs, calls, reactions, uuids>>

\* ------------------------------------------------------- handleCommand
Cmd(name) == <<Slash, name>>

\* const [targetUsername, ...restArgs] = args; an absent element is undefined,
\* which like the empty string is falsy: both read as <<>>.
First(a) == IF a = <<>> THEN <<>> ELSE a[1]

\* clients.forEach((c, id) => { if (c.username === targetUsername) {...} }):
\* the last session of that name in the Map's order; NoOid when there is none.
FindTarget(cl, hp, targetUsername) ==
    LET hits == {i \in DOMAIN cl : hp[cl[i].oid].username = targetUsername}
    IN  IF hits = {} THEN [id |-> Null, oid |-> NoOid]
        ELSE cl[CHOOSE i \in hits : \A j \in hits : j <= i]

\* restArgs.slice(1).join(' ') || 'Banned by Admin command.'
BanReason(args) ==
    LET reason == Join(Slice1(Slice1(args)))
    IN  IF reason = <<>> THEN DefaultReason ELSE reason

\* args[0] ? args[0].toLowerCase() : 'online'
NewStatus(args) == IF First(args) = <<>> THEN S("online") ELSE ToLowerCase(First(args))

AllowedStatuses == {S("online"), S("away"), S("dnd")}

\* `USER_${command.substring(1).toUpperCase()}`
ActionType(command) == IF command = Cmd("ban") THEN "USER_BAN" ELSE "USER_KICK"

\* The kick/ban branch up to its first await: the notice to the room and the
\* event to the target (lines 238-241).
Notify(s, cl, hp, room, targetWs, action) ==
    sendToClient(broadcast(s, cl, hp, room, "channel_message", System, Null),
                 targetWs, action,
                 <<"You were", action, "from the server.">>)

\* The suspended handler a step leaves behind, if any: at most MaxTasks are kept.
CanSuspend(t) == t \notin tasks /\ Cardinality(tasks) < MaxTasks

\* send_message whose trimmed content starts with '/': the content is split and
\* handleCommand runs up to its first await.
SendCommand(c, rawContent) ==
    /\ wsState[c] = "OPEN"
    /\ StartsWithSlash(Trim(rawContent))
    /\ LET cur == currentUserId[c]
           err(msg) == Commit(sendToClient(Start, c, "error", msg), clients, heap, tasks)
       IN  IF ~Authenticated(c)
           THEN err(ErrAuth) /\ UNCHANGED <<bannedUsers>>
           ELSE
           LET oid == Get(clients, cur)
               client == heap[oid]
               parts == Split(Substring1(Trim(rawContent)))
               command == ToLowerCase(parts[1])
               args == Slice1(parts)
               roomName == client.channel
               targetUsername == First(args)
               restArgs == Slice1(args)
               t == [NoTask EXCEPT !.kind = "command", !.ws = c, !.userId = cur,
                                   !.client = oid, !.command = command, !.args = args,
                                   !.room = roomName]
           IN
           CASE command = Cmd("pin") ->
                  /\ UNCHANGED <<bannedUsers>>
                  /\ IF ~hasPermission(client.role, "Admin") THEN err(ErrRequiresAdmin)
                     ELSE IF First(restArgs) = <<>> THEN err(ErrPinUsage)
                     ELSE /\ CanSuspend([t EXCEPT !.pc = "pin_select"])
                          /\ Commit(Start, clients, heap,
                                    tasks \cup {[t EXCEPT !.pc = "pin_select"]})
             [] command = Cmd("unpin") ->
                  /\ UNCHANGED <<bannedUsers>>
                  /\ IF ~hasPermission(client.role, "Admin") THEN err(ErrRequiresAdmin)
                     ELSE /\ CanSuspend([t EXCEPT !.pc = "unpin_update"])
                          /\ Commit(Start, clients, heap,
                                    tasks \cup {[t EXCEPT !.pc = "unpin_update"]})
             [] command \in {Cmd("kick"), Cmd("ban")} ->
                  IF ~hasPermission(client.role, "Admin") \/ targetUsername = <<>>
                  THEN err(ErrDenied(command)) /\ UNCHANGED <<bannedUsers>>
                  ELSE
                  LET target == FindTarget(clients, heap, targetUsername)
                      tt == [t EXCEPT !.target = target.oid, !.targetId = target.id]
                  IN  IF target.oid # NoOid /\ heap[target.oid].role = "Admin"
                      THEN err(ErrAdmin) /\ UNCHANGED <<bannedUsers>>
                      ELSE IF command = Cmd("ban")
                      THEN /\ bannedUsers' = bannedUsers \cup {targetUsername}
                           /\ CanSuspend([tt EXCEPT !.pc = "ban_update"])
                           /\ Commit(Start, clients, heap,
                                     tasks \cup {[tt EXCEPT !.pc = "ban_update"]})
                      ELSE IF target.oid # NoOid
                      THEN /\ UNCHANGED <<bannedUsers>>
                           /\ CanSuspend([tt EXCEPT !.pc = "audit"])
                           /\ Commit(Notify(Start, clients, heap, roomName,
                                            heap[target.oid].ws, "kicked"),
                                     clients, heap,
                                     tasks \cup {[tt EXCEPT !.pc = "audit"]})
                      ELSE err(ErrNotFound(targetUsername)) /\ UNCHANGED <<bannedUsers>>
             [] command = Cmd("status") ->
                  /\ UNCHANGED <<bannedUsers>>
                  /\ IF NewStatus(args) \notin AllowedStatuses THEN err(ErrStatus)
                     ELSE /\ CanSuspend([t EXCEPT !.pc = "status_update"])
                          /\ Commit(Start, clients,
                                    [heap EXCEPT ![oid].status = NewStatus(args)[1]],
                                    tasks \cup {[t EXCEPT !.pc = "status_update"]})
             [] OTHER -> err(ErrUnknown(command)) /\ UNCHANGED <<bannedUsers>>
    /\ UNCHANGED <<currentUserId, typingUsers, users, channels, channel_members,
                   messages, audit_logs, calls, reactions, uuids>>

\* /ban: from the answer of UPDATE users SET is_banned = TRUE, ban_reason = ?
\* WHERE username = ? to the INSERT INTO audit_logs.
BanUpdate(t, ok) ==
    /\ t \in tasks /\ t.kind = "command" /\ t.pc = "ban_update"
    /\ LET rest == tasks \ {t}
           targetUsername == First(t.args)
           reason == BanReason(t.args)
           s1 == sendToClient(Start, t.ws, "notification",
                              <<"User">> \o targetUsername \o <<"is now permanently banned.">>)
       IN  IF ~ok
           THEN /\ users' = users
                /\ Commit(sendToClient(Start, t.ws, "error", ErrInternal),
                          clients, heap, rest)
           ELSE /\ users' = [u \in DOMAIN users |->
                               IF users[u].username = targetUsername
                               THEN [users[u] EXCEPT !.is_banned = TRUE,
                                                     !.ban_reason = reason]
                               ELSE users[u]]
                /\ IF t.target # NoOid
                   THEN Commit(Notify(s1, clients, heap, t.room, heap[t.target].ws, "banned"),
                               clients, heap, rest \cup {[t EXCEPT !.pc = "audit"]})
                   ELSE Commit(s1, clients, heap, rest)
    /\ UNCHANGED <<currentUserId, typingUsers, bannedUsers, channels, channel_members,
                   messages, audit_logs, calls, reactions, uuids>>

\* /kick and /ban: from the answer of INSERT INTO audit_logs to the end.
Audit(t, ok) ==
    /\ t \in tasks /\ t.kind = "command" /\ t.pc = "audit"
    /\ LET rest == tasks \ {t}
       IN  IF ~ok
           THEN /\ audit_logs' = audit_logs
                /\ Commit(sendToClient(Start, t.ws, "error", ErrInternal),
                          clients, heap, rest)
           ELSE LET s1 == wsClose(Start, heap[t.target].ws)
                    cl == MapDelete(clients, t.targetId)
                IN  /\ audit_logs' = audit_logs \cup
                          {[action_type |-> ActionType(t.command), actor_id |-> t.userId,
                            target_id |-> t.targetId, room |-> t.room]}
                    /\ Commit(broadcastPresence(s1, cl, heap, t.room), cl, heap, rest)
    /\ UNCHANGED <<currentUserId, typingUsers, bannedUsers, users, channels,
                   channel_members, messages, calls, reactions, uuids>>

\* /status: from the answer of UPDATE users SET current_status = ? to the end.
StatusUpdate(t, ok) ==
    /\ t \in tasks /\ t.kind = "command" /\ t.pc = "status_update"
    /\ LET rest == tasks \ {t}
       IN  IF ~ok
           THEN /\ users' = users
                /\ Commit(sendToClient(Start, t.ws, "error", ErrInternal),
                          clients, heap, rest)
           ELSE /\ users' = [users EXCEPT ![t.userId].current_status = NewStatus(t.args)[1]]
                /\ Commit(sendToClient(broadcastPresence(Start, clients, heap, t.room),
                                       t.ws, "notification",
                                       <<"Your status is now set to">> \o NewStatus(t.args)),
                          clients, heap, rest)
    /\ UNCHANGED <<currentUserId, typingUsers, bannedUsers, channels, channel_members,
                   messages, audit_logs, calls, reactions, uuids>>

\* /pin: from the answer of SELECT ... FROM messages WHERE id = ? AND
\* channel_name = ? to the UPDATE of the channel.  messageIdToPin = restArgs[0].
PinSelect(t, ok) ==
    /\ t \in tasks /\ t.kind = "command" /\ t.pc = "pin_select"
    /\ LET rest == tasks \ {t}
           messageIdToPin == First(Slice1(t.args))
           found == {m \in messages : S(m.id) = messageIdToPin /\ m.channel_name = t.room}
       IN  IF ~ok
           THEN Commit(sendToClient(Start, t.ws, "error", ErrPinDb), clients, heap, rest)
           ELSE IF found = {}
           THEN Commit(sendToClient(Start, t.ws, "error", ErrPinNotFound),
                       clients, heap, rest)
           ELSE Commit(Start, clients, heap, rest \cup {[t EXCEPT !.pc = "pin_update"]})
    /\ UNCHANGED <<currentUserId, typingUsers, bannedUsers, users, channels,
                   channel_members, messages, audit_logs, calls, reactions, uuids>>

\* UPDATE channels SET pinned_message_id = ? WHERE channel_name = ?
SetPinned(ch, room, id) ==
    [c \in DOMAIN ch |-> IF c = room THEN [ch[c] EXCEPT !.pinned_message_id = id] ELSE ch[c]]

\* /pin: from the answer of the UPDATE to the end.
PinUpdate(t, ok) ==
    /\ t \in tasks /\ t.kind = "command" /\ t.pc = "pin_update"
    /\ LET rest == tasks \ {t}
           messageIdToPin == First(Slice1(t.args))
       IN  IF ~ok
           THEN /\ channels' = channels
                /\ Commit(sendToClient(Start, t.ws, "error", ErrPinDb),
                          clients, heap, rest)
           ELSE /\ channels' = SetPinned(channels, t.room, messageIdToPin[1])
                /\ Commit(sendToClient(
                              broadcast(Start, clients, heap, t.room,
                                        "update_pinned_message", messageIdToPin, Null),
                              t.ws, "notification", S("Message pinned successfully.")),
                          clients, heap, rest)
    /\ UNCHANGED <<currentUserId, typingUsers, bannedUsers, users, channel_members,
                   messages, audit_logs, calls, reactions, uuids>>

\* /unpin: from the answer of UPDATE channels SET pinned_message_id = NULL to
\* the end; the query is outside any try of handleCommand.
UnpinUpdate(t, ok) ==
    /\ t \in tasks /\ t.kind = "command" /\ t.pc = "unpin_update"
    /\ LET rest == tasks \ {t}
       IN  IF ~ok
           THEN /\ channels' = channels
                /\ Commit(sendToClient(Start, t.ws, "error", ErrInternal),
                          clients, heap, rest)
           ELSE /\ channels' = SetPinned(channels, t.room, Null)
                /\ Commit(sendToClient(
                              broadcast(Start, clients, heap, t.room,
                                        "update_pinned_message", <<>>, Null),
                              t.ws, "notification", S("Message unpinned.")),
                          clients, heap, rest)
    /\ UNCHANGED <<currentUserId, typingUsers, bannedUsers, users, channel_members,
                   messages, audit_logs, calls, reactions, uuids>>

\* ------------------------------------------------------------ messages
\* Messages a run may store by send_message.
MaxMessages == 2

\* crypto.randomUUID(): the ids of the messages sent, in the order produced.
NewIds == <<"n1", "n2", "n3", "n4">>

\* timestamp: Date.now() of a message sent: the id and the timestamp are taken
\* in the same run of the handler, so a message whose id was produced later
\* has the later timestamp; getRoomData returns the rows ORDER BY timestamp ASC.
Timestamp(id) == CHOOSE i \in DOMAIN NewIds : NewIds[i] = id

ErrTtl == S("Message is too old to edit (TTL exceeded).")
ErrEdit == S("Permission denied or content empty.")
ErrDelete == S("Permission denied to delete this message.")

\* data.parent_message_id || null, kept among a handler's locals as a string.
ParentArg(parentId) == IF parentId = Null THEN <<>> ELSE S(parentId)
ParentOf(arg) == IF arg = <<>> THEN Null ELSE arg[1]

\* The row of id in messages (undefined, here Null, when there is none), and
\* the row of id in a given channel.
RowsById(msgs, id) == {m \in msgs : m.id = id}
RowsIn(msgs, id, channel) == {m \in msgs : m.id = id /\ m.channel_name = channel}

\* send_message or send_dm whose trimmed content does not start with '/', up
\* to the INSERT INTO messages (channel rooms) or to the end (DM rooms); the
\* room is the session's for send_message and data.channel for send_dm.
Send(c, type, channel, rawContent, parentId) ==
    /\ wsState[c] = "OPEN"
    /\ ~StartsWithSlash(Trim(rawContent))
    /\ IF ~Authenticated(c)
       THEN /\ Commit(sendToClient(Start, c, "error", ErrAuth), clients, heap, tasks)
            /\ uuids' = uuids
       ELSE LET cur == currentUserId[c]
                oid == Get(clients, cur)
                client == heap[oid]
                content == Trim(rawContent)
                targetRoom == IF type = "send_dm" THEN channel ELSE client.channel
                id == NewIds[uuids + 1]
                t == [NoTask EXCEPT !.kind = "send_message", !.pc = "insert", !.ws = c,
                                    !.userId = cur, !.client = oid, !.room = targetRoom,
                                    !.args = <<content, S(id), ParentArg(parentId)>>]
            IN  IF content = <<>>
                THEN Commit(Start, clients, heap, tasks) /\ uuids' = uuids
                ELSE /\ uuids < MaxMessages
                     /\ uuids' = uuids + 1
                     /\ IF ~IsDM(targetRoom)
                        THEN /\ CanSuspend(t)
                             /\ Commit(Start, clients, heap, tasks \cup {t})
                        ELSE Commit(broadcast(
                                        sendToClient(Start, c, "channel_message", S(id) \o content),
                                        clients, heap, targetRoom, "channel_message",
                                        S(id) \o content, cur),
                                    clients, heap, tasks)
    /\ UNCHANGED <<currentUserId, typingUsers, bannedUsers, users, channels,
                   channel_members, messages, audit_logs, calls, reactions>>

\* case 'send_message'
SendMessage(c, rawContent, parentId) == Send(c, "send_message", Null, rawContent, parentId)

\* case 'send_dm'
SendDm(c, channel, rawContent, parentId) == Send(c, "send_dm", channel, rawContent, parentId)

\* A table that accepts no row.
InsertRefused(channel, author, parent) == FALSE

\* The foreign keys of messages: the channel and the author exist, and the
\* parent, when given, is a stored message.
InsertAccepted(channel, author, parent) ==
    /\ channel \in DOMAIN channels
    /\ author \in DOMAIN users
    /\ parent # Null => RowsById(messages, parent) # {}

\* const isThreadRoot = parentId ? false : true
IsThreadRoot(parentId) == IF parentId # Null THEN FALSE ELSE TRUE

\* send_message: from the answer of the INSERT to the end.
SendInsert(t, ok) ==
    /\ t \in tasks /\ t.kind = "send_message" /\ t.pc = "insert"
    /\ LET rest == tasks \ {t}
           content == t.args[1]
           id == t.args[2][1]
           parentId == ParentOf(t.args[3])
       IN  IF ok /\ InsertAccepted(t.room, t.userId, parentId)
           THEN /\ messages' = messages \cup
                       {[MessageRow(id, t.room, t.userId, content, parentId)
                            EXCEPT !.is_thread_root = IsThreadRoot(parentId)]}
                /\ Commit(broadcast(
                              sendToClient(Start, t.ws, "channel_message", S(id) \o content),
                              clients, heap, t.room, "channel_message", S(id) \o content,
                              currentUserId[t.ws]),
                          clients, heap, rest)
           ELSE /\ messages' = messages
                /\ Commit(sendToClient(Start, t.ws, "error", ErrInternal),
                          clients, heap, rest)
    /\ UNCHANGED <<currentUserId, typingUsers, bannedUsers, users, channels,
                   channel_members, audit_logs, calls, reactions, uuids>>

\* Time passes: Date.now() goes beyond timestamp + MESSAGE_EDIT_TTL_MS of a
\* stored message.
Age(id) ==
    /\ \E m \in messages : m.id = id /\ ~m.old
    /\ messages' = {IF m.id = id THEN [m EXCEPT !.old = TRUE] ELSE m : m \in messages}
    /\ out' = {}
    /\ UNCHANGED <<wsState, currentUserId, clients, heap, typingUsers, bannedUsers, users,
                   channels, channel_members, audit_logs, tasks, received, calls,
                   reactions, uuids>>

\* edit_message up to the SELECT * FROM messages WHERE id = ? AND
\* channel_name = ?, whose parameters are read before the await.
EditMessage(c, id, rawContent) ==
    /\ wsState[c] = "OPEN"
    /\ IF ~Authenticated(c)
       THEN Commit(sendToClient(Start, c, "error", ErrAuth), clients, heap, tasks)
       ELSE LET cur == currentUserId[c]
                oid == Get(clients, cur)
                t == [NoTask EXCEPT !.kind = "edit_message", !.pc = "select", !.ws = c,
                                    !.userId = cur, !.client = oid,
                                    !.room = heap[oid].channel,
                                    !.args = <<S(id), Trim(rawContent)>>]
            IN  CanSuspend(t) /\ Commit(Start, clients, heap, tasks \cup {t})
    /\ UNCHANGED <<currentUserId, typingUsers, bannedUsers, users, channels,
                   channel_members, messages, audit_logs, calls, reactions, uuids>>

\* The check without its permission part: any stored message may be modified.
CanModifyAny(rows, cur, role) == rows # {}

\* messageToEdit && (messageToEdit.author_id === currentUserId ||
\*                   hasPermission(client.role, 'Moderator'))
CanModify(rows, cur, role) ==
    /\ rows # {}
    /\ \A m \in rows : m.author_id = cur \/ hasPermission(role, "Moderator")

\* edit_message: from the answer of the SELECT to the UPDATE.
EditSelect(t, ok) ==
    /\ t \in tasks /\ t.kind = "edit_message" /\ t.pc = "select"
    /\ LET rest == tasks \ {t}
           cur == currentUserId[t.ws]
           rows == RowsIn(messages, t.args[1][1], t.room)
           newContent == t.args[2]
           canEdit == CanModify(rows, cur, heap[t.client].role)
           err(msg) == Commit(sendToClient(Start, t.ws, "error", msg), clients, heap, rest)
       IN  IF ~ok THEN err(ErrInternal)
           ELSE IF canEdit /\ newContent # <<>>
           THEN IF \E m \in rows : m.author_id = cur /\ m.old
                THEN err(ErrTtl)
                ELSE Commit(Start, clients, heap, rest \cup {[t EXCEPT !.pc = "update"]})
           ELSE err(ErrEdit)
    /\ UNCHANGED <<currentUserId, typingUsers, bannedUsers, users, channels,
                   channel_members, messages, audit_logs, calls, reactions, uuids>>

\* edit_message: from the answer of UPDATE messages SET content = ?,
\* edited = 1 WHERE id = ? to the end.
EditUpdate(t, ok) ==
    /\ t \in tasks /\ t.kind = "edit_message" /\ t.pc = "update"
    /\ LET rest == tasks \ {t}
           id == t.args[1][1]
           room == heap[t.client].channel
       IN  IF ~ok
           THEN /\ messages' = messages
                /\ Commit(sendToClient(Start, t.ws, "error", ErrInternal),
                          clients, heap, rest)
           ELSE /\ messages' = {IF m.id = id
                                THEN [m EXCEPT !.content = t.args[2], !.edited = TRUE]
                                ELSE m : m \in messages}
                /\ Commit(sendToClient(
                              broadcast(Start, clients, heap, room, "message_edited",
                                        S(id) \o t.args[2], Null),
                              t.ws, "message_edited", S(id) \o t.args[2]),
                          clients, heap, rest)
    /\ UNCHANGED <<currentUserId, typingUsers, bannedUsers, users, channels,
                   channel_members, audit_logs, calls, reactions, uuids>>

\* delete_message up to the SELECT author_id, content FROM messages WHERE
\* id = ? AND channel_name = ?.
DeleteMessage(c, id) ==
    /\ wsState[c] = "OPEN"
    /\ IF ~Authenticated(c)
       THEN Commit(sendToClient(Start, c, "error", ErrAuth), clients, heap, tasks)
       ELSE LET cur == currentUserId[c]
                oid == Get(clients, cur)
                t == [NoTask EXCEPT !.kind = "delete_message", !.pc = "select", !.ws = c,
                                    !.userId = cur, !.client = oid,
                                    !.room = heap[oid].channel, !.args = <<S(id)>>]
            IN  CanSuspend(t) /\ Commit(Start, clients, heap, tasks \cup {t})
    /\ UNCHANGED <<currentUserId, typingUsers, bannedUsers, users, channels,
                   channel_members, messages, audit_logs, calls, reactions, uuids>>

\* delete_message: from the answer of the SELECT to the DELETE.
DeleteSelect(t, ok) ==
    /\ t \in tasks /\ t.kind = "delete_message" /\ t.pc = "select"
    /\ LET rest == tasks \ {t}
           rows == RowsIn(messages, t.args[1][1], t.room)
           canDelete == CanModify(rows, currentUserId[t.ws], heap[t.client].role)
           err(msg) == Commit(sendToClient(Start, t.ws, "error", msg), clients, heap, rest)
       IN  IF ~ok THEN err(ErrInternal)
           ELSE IF canDelete
           THEN Commit(Start, clients, heap, rest \cup {[t EXCEPT !.pc = "delete"]})
           ELSE err(ErrDelete)
    /\ UNCHANGED <<currentUserId, typingUsers, bannedUsers, users, channels,
                   channel_members, messages, audit_logs, calls, reactions, uuids>>

\* DELETE FROM messages WHERE id = ?: the replies keep their row with
\* parent_message_id set to NULL (ON DELETE SET NULL), the reactions of the
\* message go with it (ON DELETE CASCADE).
DeleteRow(msgs, id) ==
    {IF m.parent_message_id = id THEN [m EXCEPT !.parent_message_id = Null] ELSE m :
        m \in {x \in msgs : x.id # id}}

ReactionsWithout(rs, ids) ==
    LET Keep(r) == r.message_id \notin ids IN SelectSeq(rs, Keep)

\* delete_message: from the answer of the DELETE to the UPDATE channels.
DeleteDelete(t, ok) ==
    /\ t \in tasks /\ t.kind = "delete_message" /\ t.pc = "delete"
    /\ LET rest == tasks \ {t}
           id == t.args[1][1]
       IN  IF ~ok
           THEN /\ messages' = messages /\ reactions' = reactions
                /\ Commit(sendToClient(Start, t.ws, "error", ErrInternal),
                          clients, heap, rest)
           ELSE /\ messages' = DeleteRow(messages, id)
                /\ reactions' = ReactionsWithout(reactions, {id})
                /\ Commit(Start, clients, heap,
                          rest \cup {[t EXCEPT !.pc = "unpin",
                                               !.args = <<S(id), S(heap[t.client].channel)>>]})
    /\ UNCHANGED <<currentUserId, typingUsers, bannedUsers, users, channels,
                   channel_members, audit_logs, calls, uuids>>

\* delete_message: from the answer of UPDATE channels SET pinned_message_id =
\* NULL WHERE channel_name = ? AND pinned_message_id = ? (its parameter
\* client.channel was read when the query was made, after the DELETE had
\* answered) to the INSERT INTO audit_logs.
DeleteUnpin(t, ok) ==
    /\ t \in tasks /\ t.kind = "delete_message" /\ t.pc = "unpin"
    /\ LET rest == tasks \ {t}
           id == t.args[1][1]
           room == t.args[2][1]
       IN  IF ~ok
           THEN /\ channels' = channels
                /\ Commit(sendToClient(Start, t.ws, "error", ErrInternal),
                          clients, heap, rest)
           ELSE /\ channels' = [ch \in DOMAIN channels |->
                                  IF ch = room /\ channels[ch].pinned_message_id = id
                                  THEN [channels[ch] EXCEPT !.pinned_message_id = Null]
                                  ELSE channels[ch]]
                /\ Commit(sendToClient(
                              broadcast(Start, clients, heap, heap[t.client].channel,
                                        "message_deleted", S(id), Null),
                              t.ws, "message_deleted", S(id)),
                          clients, heap,
                          rest \cup {[t EXCEPT !.pc = "audit",
                                               !.args = <<S(id), S(heap[t.client].channel)>>]})
    /\ UNCHANGED <<currentUserId, typingUsers, bannedUsers, users, channel_members,
                   messages, audit_logs, calls, reactions, uuids>>

\* delete_message: from the answer of the INSERT INTO audit_logs to the end.
DeleteAudit(t, ok) ==
    /\ t \in tasks /\ t.kind = "delete_message" /\ t.pc = "audit"
    /\ LET rest == tasks \ {t}
       IN  IF ~ok
           THEN /\ audit_logs' = audit_logs
                /\ Commit(sendToClient(Start, t.ws, "error", ErrInternal),
                          clients, heap, rest)
           ELSE /\ audit_logs' = audit_logs \cup
                       {[action_type |-> "MESSAGE_DELETE", actor_id |-> currentUserId[t.ws],
                         target_id |-> t.args[1][1], room |-> t.args[2][1]]}
                /\ Commit(Start, clients, heap, rest)
    /\ UNCHANGED <<currentUserId, typingUsers, bannedUsers, users, channels,
                   channel_members, messages, calls, reactions, uuids>>

\* ------------------------------------------------------------ reactions
MaxReactions == 2

ReactionRow(message_id, user_id, emoji) ==
    [message_id |-> message_id, user_id |-> user_id, emoji |-> emoji]

HasRow(rows, row) == \E i \in DOMAIN rows : rows[i] = row

\* INSERT INTO reactions without IGNORE and without the primary key: the row
\* is stored once more.
InsertPlain(rows, row) == Append(rows, row)

\* INSERT IGNORE INTO reactions: a row whose primary key (message_id, user_id,
\* emoji) is stored, or whose message or user is not (foreign keys), is ignored.
InsertIgnore(rows, row) ==
    IF \/ HasRow(rows, row)
       \/ RowsById(messages, row.message_id) = {}
       \/ row.user_id \notin DOMAIN users
    THEN rows
    ELSE Append(rows, row)

\* DELETE FROM reactions WHERE message_id = ? AND user_id = ? AND emoji = ?
DeleteReaction(rows, row) == LET Keep(r) == r # row IN SelectSeq(rows, Keep)

\* SELECT user_id, emoji FROM reactions WHERE message_id = ?
ReactionsOf(rows, id) == LET Keep(r) == r.message_id = id IN SelectSeq(rows, Keep)

\* reactionResults.reduce(...): the object's entries, in the order the emojis
\* first appear, each with the array of the user ids pushed under it.
RECURSIVE Aggregate(_, _)
Aggregate(acc, rows) ==
    IF rows = <<>> THEN acc
    ELSE LET r == Head(rows)
             known == \E i \in DOMAIN acc : acc[i].emoji = r.emoji
             next == IF known
                     THEN [i \in DOMAIN acc |->
                              IF acc[i].emoji = r.emoji
                              THEN [acc[i] EXCEPT !.users = Append(@, r.user_id)]
                              ELSE acc[i]]
                     ELSE Append(acc, [emoji |-> r.emoji, users |-> <<r.user_id>>])
         IN  Aggregate(next, Tail(rows))

updatedReactions(rows, id) == Aggregate(<<>>, ReactionsOf(rows, id))

\* JSON.stringify of the reactions object, as the atoms of its text.
RECURSIVE Stringify(_)
Stringify(acc) ==
    IF acc = <<>> THEN <<>>
    ELSE <<Head(acc).emoji>> \o Head(acc).users \o <<Sp>> \o Stringify(Tail(acc))

\* add_reaction / remove_reaction up to the INSERT IGNORE or the DELETE.
Reaction(c, type, id, emoji) ==
    /\ wsState[c] = "OPEN"
    /\ IF ~Authenticated(c)
       THEN Commit(sendToClient(Start, c, "error", ErrAuth), clients, heap, tasks)
       ELSE LET cur == currentUserId[c]
                oid == Get(clients, cur)
                t == [NoTask EXCEPT !.kind = type, !.pc = "write", !.ws = c,
                                    !.userId = cur, !.client = oid,
                                    !.args = <<S(id), S(emoji)>>]
            IN  CanSuspend(t) /\ Commit(Start, clients, heap, tasks \cup {t})
    /\ UNCHANGED <<currentUserId, typingUsers, bannedUsers, users, channels,
                   channel_members, messages, audit_logs, calls, reactions, uuids>>

AddReaction(c, id, emoji) == Reaction(c, "add_reaction", id, emoji)

RemoveReaction(c, id, emoji) == Reaction(c, "remove_reaction", id, emoji)

IsReaction(t) == t \in tasks /\ t.kind \in {"add_reaction", "remove_reaction"}

\* add_reaction / remove_reaction: from the answer of the INSERT IGNORE or the
\* DELETE to the SELECT.
ReactionWrite(t, ok) ==
    /\ IsReaction(t) /\ t.pc = "write"
    /\ LET rest == tasks \ {t}
           row == ReactionRow(t.args[1][1], t.userId, t.args[2][1])
       IN  IF ~ok
           THEN /\ reactions' = reactions
                /\ Commit(sendToClient(Start, t.ws, "error", ErrInternal),
                          clients, heap, rest)
           ELSE /\ reactions' = IF t.kind = "add_reaction"
                                THEN InsertIgnore(reactions, row)
                                ELSE DeleteReaction(reactions, row)
                /\ Commit(Start, clients, heap, rest \cup {[t EXCEPT !.pc = "select"]})
    /\ UNCHANGED <<currentUserId, typingUsers, bannedUsers, users, channels,
                   channel_members, messages, audit_logs, calls, uuids>>

\* add_reaction / remove_reaction: from the answer of the SELECT to the end.
ReactionSelect(t, ok) ==
    /\ IsReaction(t) /\ t.pc = "select"
    /\ LET rest == tasks \ {t}
           id == t.args[1][1]
           data == S(id) \o Stringify(updatedReactions(reactions, id))
       IN  IF ~ok
           THEN Commit(sendToClient(Start, t.ws, "error", ErrInternal),
                       clients, heap, rest)
           ELSE Commit(sendToClient(
                           broadcast(Start, clients, heap, heap[t.client].channel,
                                     "message_reacted", data, Null),
                           t.ws, "message_reacted", data),
                       clients, heap, rest)
    /\ UNCHANGED <<currentUserId, typingUsers, bannedUsers, users, channels,
                   channel_members, messages, audit_logs, calls, reactions, uuids>>

\* ---------------------------------------------------------------- rooms
\* The ids in the order of their strings (by code units), which is the order
\* Array.prototype.sort uses when it is given no comparison function.
IdOrder == <<"u1", "u2", "u3">>

IdRank(id) == CHOOSE i \in DOMAIN IdOrder : IdOrder[i] = id

\* [id1, id2].sort(): the two are exchanged when the second comes first.
Sort2(pair) ==
    IF IdRank(pair[2]) < IdRank(pair[1]) THEN <<pair[2], pair[1]>> ELSE pair

\* `DM:${pair.join('-')}`: the name that has the two ids in the order given.
DmName(pair) ==
    CASE pair = <<"u1", "u1">> -> "DM:u1-u1"
      [] pair = <<"u1", "u2">> -> "DM:u1-u2"
      [] pair = <<"u1", "u3">> -> "DM:u1-u3"
      [] pair = <<"u2", "u1">> -> "DM:u2-u1"
      [] pair = <<"u2", "u2">> -> "DM:u2-u2"
      [] pair = <<"u2", "u3">> -> "DM:u2-u3"
      [] pair = <<"u3", "u1">> -> "DM:u3-u1"
      [] pair = <<"u3", "u2">> -> "DM:u3-u2"
      [] pair = <<"u3", "u3">> -> "DM:u3-u3"

\* The name built from the ids in the order of the arguments.
getDmRoomNameUnsorted(id1, id2) == DmName(<<id1, id2>>)

\* getDmRoomName(id1, id2): 'DM:' and the two ids, sorted, joined by '-'.
getDmRoomName(id1, id2) == DmName(Sort2(<<id1, id2>>))

ErrPrivate(channel) == <<"Channel", channel, "is private or does not exist.">>

\* join_channel / start_dm from the departure notice to the UPDATE users: the
\* notice and the typing delta go to oldRoom, the session object gets the new
\* room and is put into the registry under currentUserId.
ChangeRoom(t, rest, newRoom) ==
    LET oldRoom == t.room
        cur == currentUserId[t.ws]
        username == heap[t.client].username
        s1 == IF ~IsDM(oldRoom)
              THEN broadcast(Start, clients, heap, oldRoom, "channel_message", System, Null)
              ELSE Start
        wasTyping == username \in typingUsers[oldRoom]
        oldTypingSet == typingUsers[oldRoom] \ {username}
        s2 == IF wasTyping
              THEN broadcastTyping(s1, clients, heap, oldRoom, oldTypingSet, Null)
              ELSE s1
    IN  /\ typingUsers' = [typingUsers EXCEPT ![oldRoom] = oldTypingSet]
        /\ Commit(s2, MapSet(clients, cur, t.client),
                  [heap EXCEPT ![t.client].channel = newRoom],
                  rest \cup {[t EXCEPT !.pc = "update", !.userId = cur,
                                       !.args = <<newRoom>>]})

\* join_channel up to the await of getAuthorizedChannels.
JoinChannel(c, targetChannel) ==
    /\ wsState[c] = "OPEN"
    /\ IF ~Authenticated(c)
       THEN Commit(sendToClient(Start, c, "error", ErrAuth), clients, heap, tasks)
       ELSE LET cur == currentUserId[c]
                oid == Get(clients, cur)
                t == [NoTask EXCEPT !.kind = "join_channel", !.pc = "channels", !.ws = c,
                                    !.userId = cur, !.client = oid,
                                    !.room = heap[oid].channel,
                                    !.args = <<targetChannel>>]
            IN  CanSuspend(t) /\ Commit(Start, clients, heap, tasks \cup {t})
    /\ UNCHANGED <<currentUserId, typingUsers, bannedUsers, users, channels,
                   channel_members, messages, audit_logs, calls, reactions, uuids>>

\* join_channel: from the answer of getAuthorizedChannels to the UPDATE users.
JoinChannels(t, ok) ==
    /\ t \in tasks /\ t.kind = "join_channel" /\ t.pc = "channels"
    /\ LET rest == tasks \ {t}
           targetChannel == t.args[1]
           channelExists ==
               targetChannel \in getAuthorizedChannels(currentUserId[t.ws], ok)
       IN  IF ~channelExists
           THEN /\ typingUsers' = typingUsers
                /\ Commit(sendToClient(Start, t.ws, "error", ErrPrivate(targetChannel)),
                          clients, heap, rest)
           ELSE IF targetChannel = t.room
           THEN /\ typingUsers' = typingUsers
                /\ Commit(Start, clients, heap, rest)
           ELSE ChangeRoom(t, rest, targetChannel)
    /\ UNCHANGED <<currentUserId, bannedUsers, users, channels, channel_members,
                   messages, audit_logs, calls, reactions, uuids>>

\* start_dm up to the UPDATE users.
StartDm(c, targetUserId) ==
    /\ wsState[c] = "OPEN"
    /\ IF ~Authenticated(c)
       THEN /\ typingUsers' = typingUsers
            /\ Commit(sendToClient(Start, c, "error", ErrAuth), clients, heap, tasks)
       ELSE LET cur == currentUserId[c]
                oid == Get(clients, cur)
                t == [NoTask EXCEPT !.kind = "start_dm", !.ws = c, !.userId = cur,
                                    !.client = oid, !.room = heap[oid].channel]
                newRoom == getDmRoomName(cur, targetUserId)
            IN  IF newRoom = t.room
                THEN /\ typingUsers' = typingUsers
                     /\ Commit(Start, clients, heap, tasks)
                ELSE /\ CanSuspend([t EXCEPT !.pc = "update", !.args = <<newRoom>>])
                     /\ ChangeRoom(t, tasks, newRoom)
    /\ UNCHANGED <<currentUserId, bannedUsers, users, channels, channel_members,
                   messages, audit_logs, calls, reactions, uuids>>

RoomChange(t) == t \in tasks /\ t.kind \in {"join_channel", "start_dm"}

\* join_channel / start_dm: from the answer of UPDATE users SET
\* last_seen_channel = ? WHERE user_id = ? to the await of getRoomData.
JoinUpdate(t, ok) ==
    /\ RoomChange(t) /\ t.pc = "update"
    /\ LET rest == tasks \ {t}
       IN  IF ok
           THEN /\ users' = [id \in DOMAIN users |->
                               IF id = t.userId
                               THEN [users[id] EXCEPT !.last_seen_channel = t.args[1]]
                               ELSE users[id]]
                /\ Commit(Start, clients, heap, rest \cup {[t EXCEPT !.pc = "room"]})
           ELSE /\ users' = users
                /\ Commit(sendToClient(Start, t.ws, "error", ErrInternal),
                          clients, heap, rest)
    /\ UNCHANGED <<currentUserId, typingUsers, bannedUsers, channels,
                   channel_members, messages, audit_logs, calls, reactions, uuids>>

\* join_channel / start_dm: from the answer of getRoomData (which catches its
\* own errors) to the await of getAuthorizedChannels.
JoinRoom(t) ==
    /\ RoomChange(t) /\ t.pc = "room"
    /\ Commit(Start, clients, heap, (tasks \ {t}) \cup {[t EXCEPT !.pc = "list"]})
    /\ UNCHANGED <<currentUserId, typingUsers, bannedUsers, users, channels,
                   channel_members, messages, audit_logs, calls, reactions, uuids>>

\* join_channel / start_dm: from the answer of getAuthorizedChannels to the end.
JoinList(t) ==
    /\ RoomChange(t) /\ t.pc = "list"
    /\ LET oldRoom == t.room
           newRoom == t.args[1]
           s1 == sendToClient(Start, t.ws, "channel_change", S(newRoom))
           s2 == IF ~IsDM(newRoom)
                 THEN broadcast(s1, clients, heap, newRoom, "channel_message", System, Null)
                 ELSE s1
           s3 == broadcastPresence(s2, clients, heap, oldRoom)
           s4 == broadcastPresence(s3, clients, heap, newRoom)
       IN  Commit(s4, clients, heap, tasks \ {t})
    /\ UNCHANGED <<currentUserId, typingUsers, bannedUsers, users, channels,
                   channel_members, messages, audit_logs, calls, reactions, uuids>>

\* ------------------------------------------------------- delete_channel
ErrNoChannel == S("Cannot delete default or nonexistent channel.")
ErrNotCreator == S("Permission denied. Only the creator or an Admin can delete this channel.")
ErrDeleteChannel == S("Failed to delete channel due to server error.")

\* delete_channel up to the SELECT created_by FROM channels.
DeleteChannel(c, channelToDelete) ==
    /\ wsState[c] = "OPEN"
    /\ IF ~Authenticated(c)
       THEN Commit(sendToClient(Start, c, "error", ErrAuth), clients, heap, tasks)
       ELSE LET cur == currentUserId[c]
                oid == Get(clients, cur)
                t == [NoTask EXCEPT !.kind = "delete_channel", !.pc = "select", !.ws = c,
                                    !.userId = cur, !.client = oid,
                                    !.args = <<S(channelToDelete), <<>>>>]
            IN  CanSuspend(t) /\ Commit(Start, clients, heap, tasks \cup {t})
    /\ UNCHANGED <<currentUserId, typingUsers, bannedUsers, users, channels,
                   channel_members, messages, audit_logs, calls, reactions, uuids>>

\* The connections of the sessions whose room is the channel, in the
\* registry's order (usersToMove, read through c.ws).
RECURSIVE usersToMove(_, _, _)
usersToMove(cl, hp, channel) ==
    IF cl = <<>> THEN <<>>
    ELSE (IF hp[Head(cl).oid].channel = channel THEN <<hp[Head(cl).oid].ws>> ELSE <<>>)
             \o usersToMove(Tail(cl), hp, channel)

\* clients.forEach: every session of the channel gets the fallback channel.
MoveToFallback(cl, hp, channel) ==
    [o \in DOMAIN hp |->
        IF hp[o].channel = channel /\ \E e \in Entries(cl) : e.oid = o
        THEN [hp[o] EXCEPT !.channel = FALLBACK_CHANNEL]
        ELSE hp[o]]

\* delete_channel: from the answer of the SELECT to the DELETE FROM channels.
ChannelSelect(t, ok) ==
    /\ t \in tasks /\ t.kind = "delete_channel" /\ t.pc = "select"
    /\ LET rest == tasks \ {t}
           channelToDelete == t.args[1][1]
           exists == channelToDelete \in DOMAIN channels
           isChannelCreator == channels[channelToDelete].created_by = currentUserId[t.ws]
           canDeleteChannel == hasPermission(heap[t.client].role, "Admin") \/ isChannelCreator
           err(msg) == Commit(sendToClient(Start, t.ws, "error", msg), clients, heap, rest)
       IN  IF ~ok THEN err(ErrInternal)
           ELSE IF ~exists \/ channelToDelete = FALLBACK_CHANNEL THEN err(ErrNoChannel)
           ELSE IF ~canDeleteChannel THEN err(ErrNotCreator)
           ELSE Commit(Start, clients, MoveToFallback(clients, heap, channelToDelete),
                       rest \cup {[t EXCEPT !.pc = "delete",
                                            !.args = <<S(channelToDelete),
                                                       usersToMove(clients, heap,
                                                                   channelToDelete)>>]})
    /\ UNCHANGED <<currentUserId, typingUsers, bannedUsers, users, channels,
                   channel_members, messages, audit_logs, calls, reactions, uuids>>

\* DELETE FROM channels WHERE channel_name = ?: the rows of the channel in
\* messages and channel_members go with it (ON DELETE CASCADE), the reactions
\* of those messages too, and replies to them stored elsewhere lose their
\* parent reference (ON DELETE SET NULL).
MessagesWithout(msgs, channel) ==
    LET gone == {m.id : m \in {x \in msgs : x.channel_name = channel}}
    IN  {IF m.parent_message_id \in gone THEN [m EXCEPT !.parent_message_id = Null] ELSE m :
            m \in {x \in msgs : x.channel_name # channel}}

\* delete_channel: from the answer of the DELETE to the await of getRoomData.
ChannelDelete(t, ok) ==
    /\ t \in tasks /\ t.kind = "delete_channel" /\ t.pc = "delete"
    /\ LET rest == tasks \ {t}
           channelToDelete == t.args[1][1]
           gone == {m.id : m \in {x \in messages : x.channel_name = channelToDelete}}
       IN  IF ~ok
           THEN /\ UNCHANGED <<channels, channel_members, messages, reactions>>
                /\ Commit(sendToClient(Start, t.ws, "error", ErrDeleteChannel),
                          clients, heap, rest)
           ELSE /\ channels' = [ch \in DOMAIN channels \ {channelToDelete} |-> channels[ch]]
                /\ channel_members' = {cm \in channel_members : cm[1] # channelToDelete}
                /\ messages' = MessagesWithout(messages, channelToDelete)
                /\ reactions' = ReactionsWithout(reactions, gone)
                /\ Commit(Start, clients, heap, rest \cup {[t EXCEPT !.pc = "room"]})
    /\ UNCHANGED <<currentUserId, typingUsers, bannedUsers, users, audit_logs, calls, uuids>>

\* wss.clients.forEach: the connections that are OPEN and have a currentUserId.
Identified ==
    LET Keep(c) == wsState[c] = "OPEN" /\ currentUserId[c] # Null
    IN  SelectSeq([c \in Conn |-> c], Keep)

\* delete_channel: from the answer of getRoomData('#general') to the end of the
\* handler; the getAuthorizedChannels queries it starts are answered later.
ChannelRoom(t) ==
    /\ t \in tasks /\ t.kind = "delete_channel" /\ t.pc = "room"
    /\ LET channelToDelete == t.args[1][1]
           s1 == broadcastPresence(Start, clients, heap, channelToDelete)
           s2 == broadcastPresence(s1, clients, heap, FALLBACK_CHANNEL)
           s3 == sendToClient(s2, t.ws, "notification", S(channelToDelete))
       IN  Commit(s3, clients, heap,
                  (tasks \ {t}) \cup {[t EXCEPT !.pc = "lists",
                                                !.args = <<t.args[1], t.args[2], Identified>>]})
    /\ UNCHANGED <<currentUserId, typingUsers, bannedUsers, users, channels,
                   channel_members, messages, audit_logs, calls, reactions, uuids>>

RECURSIVE SendAll(_, _, _, _)
SendAll(s, wss, type, data) ==
    IF wss = <<>> THEN s
    ELSE SendAll(sendToClient(s, Head(wss), type, data), Tail(wss), type, data)

\* delete_channel: the callbacks of the getAuthorizedChannels queries, which
\* send 'channel_change' to the moved sessions' connections and
\* 'channel_list_update' to every connection that had a currentUserId.
ChannelLists(t) ==
    /\ t \in tasks /\ t.kind = "delete_channel" /\ t.pc = "lists"
    /\ LET s1 == SendAll(Start, t.args[2], "channel_change", S(FALLBACK_CHANNEL))
           s2 == SendAll(s1, t.args[3], "channel_list_update", <<>>)
       IN  Commit(s2, clients, heap, tasks \ {t})
    /\ UNCHANGED <<currentUserId, typingUsers, bannedUsers, users, channels,
                   channel_members, messages, audit_logs, calls, reactions, uuids>>

\* ------------------------------------------------------- create_channel
ErrNameLength == S("Channel name is too short or too long.")
ErrExists(channel) == <<"Channel", channel, "already exists.">>
ErrCreate == S("Failed to create channel due to server error.")

\* newChannelName.length of the names the clients send.
NameLength(name) ==
    CASE name = "x" -> 1
      [] name = "#ops" -> 4
      [] name = "#dev" -> 4
      [] name = "#general" -> 8
      [] name = "DM:u1-u2" -> 8

\* create_channel up to the INSERT INTO channels; created_by is the
\* currentUserId of the connection at that time.
CreateChannel(c, newChannelName, isPrivate) ==
    /\ wsState[c] = "OPEN"
    /\ IF ~Authenticated(c)
       THEN Commit(sendToClient(Start, c, "error", ErrAuth), clients, heap, tasks)
       ELSE IF NameLength(newChannelName) > 50 \/ NameLength(newChannelName) < 2
       THEN Commit(sendToClient(Start, c, "error", ErrNameLength), clients, heap, tasks)
       ELSE LET cur == currentUserId[c]
                t == [NoTask EXCEPT !.kind = "create_channel", !.pc = "insert", !.ws = c,
                                    !.userId = cur, !.client = Get(clients, cur),
                                    !.args = <<S(newChannelName), S(isPrivate), <<>>>>]
            IN  CanSuspend(t) /\ Commit(Start, clients, heap, tasks \cup {t})
    /\ UNCHANGED <<currentUserId, typingUsers, bannedUsers, users, channels,
                   channel_members, messages, audit_logs, calls, reactions, uuids>>

\* Steps 3 and 4 of create_channel: the notification to the creator, and the
\* getAuthorizedChannels queries started for every open connection that has a
\* currentUserId; the timer of step 5 is set.
Created(t, rest) ==
    Commit(sendToClient(Start, t.ws, "notification", t.args[1]), clients, heap,
           rest \cup {[t EXCEPT !.pc = "lists", !.args = <<t.args[1], t.args[2], Identified>>]})

\* create_channel: from the answer of INSERT INTO channels to the next await
\* (the INSERT INTO channel_members of a private channel, whose user_id is
\* the currentUserId of the connection at this time) or to the end of the try.
CreateInsert(t, ok) ==
    /\ t \in tasks /\ t.kind = "create_channel" /\ t.pc = "insert"
    /\ LET rest == tasks \ {t}
           newChannelName == t.args[1][1]
           isPrivate == t.args[2][1]
       IN  IF newChannelName \in DOMAIN channels
           THEN /\ channels' = channels
                /\ Commit(sendToClient(Start, t.ws, "error", ErrExists(newChannelName)),
                          clients, heap, rest)
           ELSE IF ~ok
           THEN /\ channels' = channels
                /\ Commit(sendToClient(Start, t.ws, "error", ErrCreate), clients, heap, rest)
           ELSE /\ channels' =
                       [ch \in DOMAIN channels \cup {newChannelName} |->
                           IF ch = newChannelName
                           THEN [is_private |-> isPrivate, created_by |-> t.userId,
                                 pinned_message_id |-> Null]
                           ELSE channels[ch]]
                /\ IF isPrivate
                   THEN Commit(Start, clients, heap,
                               rest \cup {[t EXCEPT !.pc = "member",
                                                    !.args = <<t.args[1], t.args[2],
                                                               S(currentUserId[t.ws])>>]})
                   ELSE Created(t, rest)
    /\ UNCHANGED <<currentUserId, typingUsers, bannedUsers, users, channel_members,
                   messages, audit_logs, calls, reactions, uuids>>

\* create_channel of a private channel: from the answer of INSERT INTO
\* channel_members to the end of the try.
CreateMember(t, ok) ==
    /\ t \in tasks /\ t.kind = "create_channel" /\ t.pc = "member"
    /\ LET rest == tasks \ {t}
           newChannelName == t.args[1][1]
           userId == t.args[3][1]
       IN  IF ok /\ newChannelName \in DOMAIN channels /\ userId \in DOMAIN users
           THEN /\ channel_members' = channel_members \cup {<<newChannelName, userId>>}
                /\ Created(t, rest)
           ELSE /\ channel_members' = channel_members
                /\ Commit(sendToClient(Start, t.ws, "error", ErrCreate), clients, heap, rest)
    /\ UNCHANGED <<currentUserId, typingUsers, bannedUsers, users, channels,
                   messages, audit_logs, calls, reactions, uuids>>

\* create_channel: the callbacks of the getAuthorizedChannels queries, which
\* send 'channel_list_update' to every connection that had a currentUserId.
CreateLists(t) ==
    /\ t \in tasks /\ t.kind = "create_channel" /\ t.pc = "lists"
    /\ Commit(SendAll(Start, t.args[3], "channel_list_update", <<>>), clients, heap,
              (tasks \ {t}) \cup {[t EXCEPT !.pc = "timer"]})
    /\ UNCHANGED <<currentUserId, typingUsers, bannedUsers, users, channels,
                   channel_members, messages, audit_logs, calls, reactions, uuids>>

\* The timer of create_channel: ws.emit('message', join_channel of the new
\* channel) runs the message handler of the connection, whatever the
\* readyState of the connection, up to the await of getAuthorizedChannels.
CreateTimer(t) ==
    /\ t \in tasks /\ t.kind = "create_channel" /\ t.pc = "timer"
    /\ LET rest == tasks \ {t}
           c == t.ws
       IN  IF ~Authenticated(c)
           THEN Commit(sendToClient(Start, c, "error", ErrAuth), clients, heap, rest)
           ELSE LET cur == currentUserId[c]
                    oid == Get(clients, cur)
                    j == [NoTask EXCEPT !.kind = "join_channel", !.pc = "channels",
                                        !.ws = c, !.userId = cur, !.client = oid,
                                        !.room = heap[oid].channel,
                                        !.args = <<t.args[1][1]>>]
                IN  Commit(Start, clients, heap, rest \cup {j})
    /\ UNCHANGED <<currentUserId, typingUsers, bannedUsers, users, channels,
                   channel_members, messages, audit_logs, calls, reactions, uuids>>

\* ------------------------------------------------------ specifications
\* A specification fixes the environment of the handlers: which connection
\* logs in as whom, which commands it sends, and which queries may fail.  A
\* connection sends login once, before anything else.
Fresh(c) == currentUserId[c] = Null

\* The contents the clients send: the spec's form "/kick bob" and the form
\* whose first part, once the marker is cut off, is still "/kick".
K1 == <<Slash, "kick", Sp, "bob">>
B1 == <<Slash, "ban", Sp, "bob", Sp, "evil">>
Kb == <<Slash, Slash, "kick", Sp, "bob">>
Bb == <<Slash, Slash, "ban", Sp, "bob", Sp, "evil">>
Bd == <<Slash, Slash, "ban", Sp, "admin-dee", Sp, "evil">>

\* At most MaxCommands commands are sent in a behaviour.
Counted == nCommands < MaxCommands /\ nCommands' = nCommands + 1

\* Sessions: connection 1 is the Admin's, every other connection logs in as
\* bob (u2); the Admin may kick bob.
Logins == {<<1, "u1", S("admin-al")>>} \cup {<<c, "u2", S("bob")>> : c \in Conn \ {1}}

Commands == {<<1, Kb>>}

Resume ==
    \E t \in tasks :
        \/ LoginSelect(t, TRUE)
        \/ \E ok \in BOOLEAN : LoginChannels(t, ok)
        \/ LoginUpdate(t, TRUE)
        \/ LoginRoom(t)
        \/ \E ok \in BOOLEAN : Audit(t, ok)

Next ==
    \/ (\E l \in Logins : Fresh(l[1]) /\ Login(l[1], l[2], l[3])) /\ UNCHANGED nCommands
    \/ (\E m \in Commands : SendCommand(m[1], m[2])) /\ Counted
    \/ (\E c \in Conn : ClientClose(c)) /\ UNCHANGED nCommands
    \/ (\E c \in Conn : CloseEvent(c)) /\ UNCHANGED nCommands
    \/ Resume /\ UNCHANGED nCommands

Spec == Init /\ [][Next]_vars

\* Moderation: connection 1 is the Admin's, connection 2 is bob's, connection 3
\* is the Moderator's; admin-dee never logs in.
ModLogins ==
    {<<1, "u1", S("admin-al")>>, <<2, "u2", S("bob")>>, <<3, "u3", S("mod-cy")>>}

ModCommands == {<<1, K1>>, <<1, B1>>, <<3, K1>>, <<1, Kb>>, <<1, Bb>>, <<1, Bd>>, <<3, Kb>>}

ModResume ==
    \E t \in tasks :
        \/ LoginSelect(t, TRUE)
        \/ LoginChannels(t, TRUE)
        \/ LoginRoom(t)
        \/ \E ok \in BOOLEAN : BanUpdate(t, ok)
        \/ \E ok \in BOOLEAN : Audit(t, ok)

ModNext ==
    \/ (\E l \in ModLogins : Fresh(l[1]) /\ Login(l[1], l[2], l[3])) /\ UNCHANGED nCommands
    \/ (\E m \in ModCommands : SendCommand(m[1], m[2])) /\ Counted
    \/ (\E c \in Conn : ClientClose(c)) /\ UNCHANGED nCommands
    \/ (\E c \in Conn : CloseEvent(c)) /\ UNCHANGED nCommands
    \/ ModResume /\ UNCHANGED nCommands

SpecMod == Init /\ [][ModNext]_vars

\* Commands: connection 1 is the Admin's and sends each command in the spec's
\* form and in the form that reaches the handlers; connection 2 is bob's.
CmdLogins == {<<1, "u1", S("admin-al")>>, <<2, "u2", S("bob")>>}

CmdContents ==
    {<<Slash, "pin", Sp, "m1">>, <<Slash, "unpin">>, K1, B1,
     <<Slash, "status", Sp, "away">>, <<Slash, "foo">>,
     <<Slash, Slash, "pin", Sp, "x", Sp, "m1">>, <<Slash, Slash, "pin", Sp, "x", Sp, "m9">>,
     <<Slash, Slash, "unpin">>, <<Slash, Slash, "status", Sp, "Away">>,
     <<Slash, Slash, "pin", Sp, "m1">>}

CmdResume ==
    \E t \in tasks :
        \/ LoginSelect(t, TRUE)
        \/ LoginChannels(t, TRUE)
        \/ LoginRoom(t)
        \/ \E ok \in BOOLEAN : PinSelect(t, ok)
        \/ \E ok \in BOOLEAN : PinUpdate(t, ok)
        \/ \E ok \in BOOLEAN : UnpinUpdate(t, ok)
        \/ \E ok \in BOOLEAN : StatusUpdate(t, ok)

CmdNext ==
    \/ (\E l \in CmdLogins : Fresh(l[1]) /\ Login(l[1], l[2], l[3])) /\ UNCHANGED nCommands
    \/ (\E content \in CmdContents : SendCommand(1, content)) /\ Counted
    \/ (\E b \in BOOLEAN : TypingUpdate(2, b)) /\ UNCHANGED nCommands
    \/ ClientClose(2) /\ UNCHANGED nCommands
    \/ CmdResume /\ UNCHANGED nCommands

SpecCmd == Init /\ [][CmdNext]_vars

\* Permission checks: hasPermission is called with any two roles, and each
\* call is recorded with its result.
Roles == {"Admin", "Moderator", "User", "Guest"}

CheckPermission(userRole, requiredRole) ==
    /\ Len(calls) < MaxCalls
    /\ calls' = Append(calls, [userRole |-> userRole, requiredRole |-> requiredRole,
                               result |-> hasPermission(userRole, requiredRole)])
    /\ UNCHANGED <<wsState, currentUserId, clients, heap, typingUsers, bannedUsers,
                   users, channels, channel_members, messages, audit_logs, tasks,
                   received, out, nCommands, reactions, uuids>>

PermNext == \E userRole \in Roles, requiredRole \in Roles : CheckPermission(userRole, requiredRole)

PermSpec == Init /\ [][PermNext]_vars

\* Messages: connection 1 is the Moderator mod-cy, whose room is '#general',
\* connection 2 is bob, whose room is '#dev'; they send messages and replies,
\* edit and delete them, and stored messages grow older than the edit window.
MsgLogins == {<<1, "u3", S("mod-cy")>>, <<2, "u2", S("bob")>>}

MsgConn == {1, 2}

MsgContents == {S("yo"), <<Sp>>}

MsgIds == {"m1", "m2", "n1"}

MsgResume ==
    \E t \in tasks :
        \/ LoginSelect(t, TRUE)
        \/ LoginChannels(t, TRUE)
        \/ LoginRoom(t)
        \/ \E ok \in BOOLEAN : SendInsert(t, ok)
        \/ DeleteSelect(t, TRUE)
        \/ DeleteDelete(t, TRUE)
        \/ DeleteUnpin(t, TRUE)
        \/ \E ok \in BOOLEAN : DeleteAudit(t, ok)

MsgNext ==
    \/ (\E l \in MsgLogins : Fresh(l[1]) /\ Login(l[1], l[2], l[3])) /\ UNCHANGED nCommands
    \/ (\E c \in MsgConn, content \in MsgContents, parentId \in {Null, "m1"} :
            SendMessage(c, content, parentId)) /\ UNCHANGED nCommands
    \/ (\E c \in MsgConn, id \in MsgIds : DeleteMessage(c, id)) /\ Counted
    \/ MsgResume /\ UNCHANGED nCommands

SpecMsg == Init /\ [][MsgNext]_vars

\* Edits: the same two sessions send messages and edit them, and the stored
\* message n1 grows older than the edit window.
EditResume ==
    \E t \in tasks :
        \/ LoginSelect(t, TRUE)
        \/ LoginChannels(t, TRUE)
        \/ LoginRoom(t)
        \/ SendInsert(t, TRUE)
        \/ \E ok \in BOOLEAN : EditSelect(t, ok)
        \/ \E ok \in BOOLEAN : EditUpdate(t, ok)

EditNext ==
    \/ (\E l \in MsgLogins : Fresh(l[1]) /\ Login(l[1], l[2], l[3])) /\ UNCHANGED nCommands
    \/ (\E c \in MsgConn : SendMessage(c, S("yo"), Null)) /\ UNCHANGED nCommands
    \/ (\E c \in MsgConn, id \in MsgIds, content \in MsgContents :
            EditMessage(c, id, content)) /\ Counted
    \/ Age("n1") /\ UNCHANGED nCommands
    \/ EditResume /\ UNCHANGED nCommands

SpecEdit == Init /\ [][EditNext]_vars

\* Pins: connection 1 is the Admin admin-al, whose room is '#general', and
\* connection 2 is bob; the Admin pins m1, deletes messages and changes room.
PinLogins == {<<1, "u1", S("admin-al")>>, <<2, "u2", S("bob")>>}

PinM1 == <<Slash, Slash, "pin", Sp, "x", Sp, "m1">>

PinResume ==
    \E t \in tasks :
        \/ LoginSelect(t, TRUE)
        \/ LoginChannels(t, TRUE)
        \/ LoginRoom(t)
        \/ PinSelect(t, TRUE)
        \/ PinUpdate(t, TRUE)
        \/ DeleteSelect(t, TRUE)
        \/ DeleteDelete(t, TRUE)
        \/ \E ok \in BOOLEAN : DeleteUnpin(t, ok)
        \/ DeleteAudit(t, TRUE)
        \/ \E ok \in BOOLEAN : JoinChannels(t, ok)
        \/ \E ok \in BOOLEAN : JoinUpdate(t, ok)
        \/ JoinRoom(t)
        \/ JoinList(t)

PinNext ==
    \/ (\E l \in PinLogins : Fresh(l[1]) /\ Login(l[1], l[2], l[3])) /\ UNCHANGED nCommands
    \/ SendCommand(1, PinM1) /\ UNCHANGED nCommands
    \/ (\E id \in {"m1", "m2"} : DeleteMessage(1, id)) /\ Counted
    \/ (\E channel \in {FALLBACK_CHANNEL, "#dev", "#none"} : JoinChannel(1, channel))
           /\ Counted
    \/ PinResume /\ UNCHANGED nCommands

SpecPin == Init /\ [][PinNext]_vars

\* Reactions: connection 1 is the Moderator mod-cy, who adds reactions to
\* m1; connection 2 is bob, who adds a reaction to m1 or to a message that is
\* not stored, and removes it.
Emojis == {"e1", "e2"}

ReactCounted == nCommands < MaxReactions /\ nCommands' = nCommands + 1

ReactResume ==
    \E t \in tasks :
        \/ LoginSelect(t, TRUE)
        \/ LoginChannels(t, TRUE)
        \/ LoginRoom(t)
        \/ ReactionWrite(t, TRUE)
        \/ \E ok \in BOOLEAN : ReactionSelect(t, ok)

ReactNext ==
    \/ (\E l \in MsgLogins : Fresh(l[1]) /\ Login(l[1], l[2], l[3])) /\ UNCHANGED nCommands
    \/ (\E emoji \in Emojis : AddReaction(1, "m1", emoji)) /\ ReactCounted
    \/ (\E id \in {"m1", "m9"} : AddReaction(2, id, "e1")) /\ UNCHANGED nCommands
    \/ RemoveReaction(2, "m1", "e1") /\ UNCHANGED nCommands
    \/ ReactResume /\ UNCHANGED nCommands

SpecReact == Init /\ [][ReactNext]_vars

\* Rooms: connection 1 is the Admin admin-al, whose room is '#general', and
\* connection 2 is bob, whose room is '#dev'; bob types, joins channels and
\* starts a direct message with the Admin, and channels are deleted.
RoomResume ==
    \E t \in tasks :
        \/ LoginSelect(t, TRUE)
        \/ LoginChannels(t, TRUE)
        \/ LoginRoom(t)
        \/ JoinChannels(t, TRUE)
        \/ JoinUpdate(t, TRUE)
        \/ JoinRoom(t)
        \/ JoinList(t)
        \/ ChannelSelect(t, TRUE)
        \/ \E ok \in BOOLEAN : ChannelDelete(t, ok)
        \/ ChannelRoom(t)
        \/ ChannelLists(t)

RoomNext ==
    \/ (\E l \in PinLogins : Fresh(l[1]) /\ Login(l[1], l[2], l[3])) /\ UNCHANGED nCommands
    \/ (\E isTyping \in BOOLEAN : TypingUpdate(2, isTyping)) /\ UNCHANGED nCommands
    \/ (\E channel \in {FALLBACK_CHANNEL, "#dev"} : JoinChannel(2, channel)) /\ Counted
    \/ StartDm(2, "u1") /\ Counted
    \/ (\E c \in {1, 2}, channel \in {FALLBACK_CHANNEL, "#dev"} : DeleteChannel(c, channel))
           /\ Counted
    \/ RoomResume /\ UNCHANGED nCommands

SpecRoom == Init /\ [][RoomNext]_vars

\* Departures: connection 1 is the Admin admin-al in '#general', connection 2
\* is bob in '#dev', connection 3 is mod-cy, who may join '#dev'; bob types, the
\* Admin kicks bob, and connections close.
LeaveResume ==
    \E t \in tasks :
        \/ LoginSelect(t, TRUE)
        \/ LoginChannels(t, TRUE)
        \/ LoginRoom(t)
        \/ JoinChannels(t, TRUE)
        \/ JoinUpdate(t, TRUE)
        \/ JoinRoom(t)
        \/ JoinList(t)
        \/ \E ok \in BOOLEAN : Audit(t, ok)

LeaveNext ==
    \/ (\E l \in ModLogins : Fresh(l[1]) /\ Login(l[1], l[2], l[3])) /\ UNCHANGED nCommands
    \/ (\E isTyping \in BOOLEAN : TypingUpdate(2, isTyping)) /\ UNCHANGED nCommands
    \/ JoinChannel(3, "#dev") /\ Counted
    \/ SendCommand(1, Kb) /\ Counted
    \/ (\E c \in {2, 3} : ClientClose(c)) /\ UNCHANGED nCommands
    \/ (\E c \in Conn : CloseEvent(c)) /\ UNCHANGED nCommands
    \/ LeaveResume /\ UNCHANGED nCommands

SpecLeave == Init /\ [][LeaveNext]_vars

\* Authentication: connection 1 logs in as the Admin, connections 2 and 3 as
\* bob; every connection sends typing_update and send_message events, before,
\* during and after its login.
AuthResume ==
    \E t \in tasks :
        \/ LoginSelect(t, TRUE)
        \/ LoginChannels(t, TRUE)
        \/ LoginRoom(t)
        \/ SendInsert(t, TRUE)

AuthNext ==
    \/ (\E l \in Logins : Fresh(l[1]) /\ Login(l[1], l[2], l[3])) /\ UNCHANGED nCommands
    \/ (\E c \in Conn, isTyping \in BOOLEAN : TypingUpdate(c, isTyping))
           /\ UNCHANGED nCommands
    \/ (\E c \in Conn : SendMessage(c, S("yo"), Null)) /\ UNCHANGED nCommands
    \/ (\E c \in Conn : CloseEvent(c)) /\ UNCHANGED nCommands
    \/ AuthResume /\ UNCHANGED nCommands

SpecAuth == Init /\ [][AuthNext]_vars

\* Rejected logins: connection 1 is the Admin admin-al and connection 2 is
\* bob; the Admin bans bob; connection 3 logs in with an id no row has, or as
\* bob once bob's name is in the ban set.
RejectLogins ==
    {<<1, "u1", S("admin-al")>>, <<2, "u2", S("bob")>>, <<3, UnknownId, S("bob")>>}
        \cup {<<3, "u2", S("bob")>> : x \in {y \in {1} : S("bob") \in bannedUsers}}

RejectResume ==
    \E t \in tasks :
        \/ LoginSelect(t, TRUE)
        \/ LoginChannels(t, TRUE)
        \/ LoginRoom(t)
        \/ \E ok \in BOOLEAN : BanUpdate(t, ok)
        \/ \E ok \in BOOLEAN : Audit(t, ok)

RejectNext ==
    \/ (\E l \in RejectLogins : Fresh(l[1]) /\ Login(l[1], l[2], l[3]))
           /\ UNCHANGED nCommands
    \/ SendCommand(1, Bb) /\ Counted
    \/ (\E c \in Conn : CloseEvent(c)) /\ UNCHANGED nCommands
    \/ RejectResume /\ UNCHANGED nCommands

SpecReject == Init /\ [][RejectNext]_vars

\* First room: connection 1 is the Admin admin-al, who deletes '#dev';
\* connections 2 and 3 log in as bob, whose last seen channel is '#dev',
\* before the deletion or after it (no login of bob runs while a deletion
\* does).  The UPDATE of the login may fail.
StartLogins == {<<1, "u1", S("admin-al")>>, <<2, "u2", S("bob")>>, <<3, "u2", S("bob")>>}

StartResume ==
    \E t \in tasks :
        \/ LoginSelect(t, TRUE)
        \/ LoginChannels(t, TRUE)
        \/ \E ok \in BOOLEAN : LoginUpdate(t, ok)
        \/ LoginRoom(t)
        \/ ChannelSelect(t, TRUE)
        \/ ChannelDelete(t, TRUE)
        \/ ChannelRoom(t)
        \/ ChannelLists(t)

StartNext ==
    \/ (\E l \in StartLogins :
            /\ Fresh(l[1])
            /\ l[2] = "u2" => \A t \in tasks : t.kind # "delete_channel"
            /\ Login(l[1], l[2], l[3])) /\ UNCHANGED nCommands
    \/ (/\ \A t \in tasks : t.userId # "u2"
        /\ DeleteChannel(1, "#dev")) /\ Counted
    \/ (\E c \in {2, 3} : CloseEvent(c)) /\ UNCHANGED nCommands
    \/ StartResume /\ UNCHANGED nCommands

SpecStart == Init /\ [][StartNext]_vars

\* Marked contents: connection 1 is the Admin's and connection 2 is bob's; both
\* send contents that start with '/' (after trimming): commands that are not
\* recognized, commands the sender may or may not use, commands whose queries
\* fail; and they send the plain content "yo".
SlashContents ==
    {<<Slash, "foo">>, <<Sp, Slash, "foo", Sp>>, K1, Kb,
     <<Slash, Slash, "pin", Sp, "x", Sp, "m1">>, <<Slash, Slash, "status", Sp, "away">>}

SlashResume ==
    \E t \in tasks :
        \/ LoginSelect(t, TRUE)
        \/ LoginChannels(t, TRUE)
        \/ LoginRoom(t)
        \/ \E ok \in BOOLEAN : SendInsert(t, ok)
        \/ \E ok \in BOOLEAN : PinSelect(t, ok)
        \/ \E ok \in BOOLEAN : PinUpdate(t, ok)
        \/ \E ok \in BOOLEAN : StatusUpdate(t, ok)
        \/ \E ok \in BOOLEAN : Audit(t, ok)

SlashNext ==
    \/ (\E l \in CmdLogins : Fresh(l[1]) /\ Login(l[1], l[2], l[3])) /\ UNCHANGED nCommands
    \/ (\E c \in {1, 2}, content \in SlashContents : SendCommand(c, content)) /\ Counted
    \/ (\E c \in {1, 2}, content \in SlashContents \cup {S("yo")} :
            SendMessage(c, content, Null)) /\ UNCHANGED nCommands
    \/ SlashResume /\ UNCHANGED nCommands

SpecSlash == Init /\ [][SlashNext]_vars

\* Sending: connection 1 is the Admin admin-al in '#general', connection 2 is
\* bob in '#dev'; each may open the direct-message room with the other; they
\* send "yo" to their room (send_message), as a reply to a message that is
\* not stored, or to a named room (send_dm); the INSERT may fail.
SendRooms == {"DM:u1-u2", FALLBACK_CHANNEL}

SendResume ==
    \E t \in tasks :
        \/ LoginSelect(t, TRUE)
        \/ LoginChannels(t, TRUE)
        \/ LoginRoom(t)
        \/ JoinUpdate(t, TRUE)
        \/ JoinRoom(t)
        \/ JoinList(t)
        \/ \E ok \in BOOLEAN : SendInsert(t, ok)

SendNext ==
    \/ (\E l \in PinLogins : Fresh(l[1]) /\ Login(l[1], l[2], l[3])) /\ UNCHANGED nCommands
    \/ (StartDm(1, "u2") \/ StartDm(2, "u1")) /\ Counted
    \/ (\E c \in {1, 2}, parentId \in {Null, "m9"} : SendMessage(c, S("yo"), parentId))
           /\ UNCHANGED nCommands
    \/ (\E channel \in SendRooms : SendDm(2, channel, S("yo"), Null)) /\ UNCHANGED nCommands
    \/ SendResume /\ UNCHANGED nCommands

SpecSend == Init /\ [][SendNext]_vars

\* broadcast as a function: the registry holds the sessions of u1, u2 and u3
\* on the connections 1, 2 and 3, each in any of three rooms and with its
\* connection open or closed; broadcast is called with any room and any
\* excluded identity, and what it sends is kept in out.
BcastRooms == {FALLBACK_CHANNEL, "#dev", "DM:u1-u2"}

BcastIds == <<"u1", "u2", "u3">>

BcastInit ==
    /\ wsState \in [Conn -> {"OPEN", "CLOSED"}]
    /\ currentUserId = [c \in Conn |-> BcastIds[c]]
    /\ clients = [c \in Conn |-> [id |-> BcastIds[c], oid |-> c]]
    /\ \E room \in [Conn -> BcastRooms] :
          heap = [c \in Conn |->
                    [ws |-> c, username |-> InitUsers[BcastIds[c]].username,
                     channel |-> room[c], role |-> InitUsers[BcastIds[c]].user_role,
                     status |-> "online"]]
    /\ typingUsers = [r \in Rooms |-> {}]
    /\ bannedUsers = {}
    /\ users = InitUsers
    /\ channels = InitChannels
    /\ channel_members = {}
    /\ messages = InitMessages
    /\ audit_logs = {}
    /\ tasks = {}
    /\ received = [c \in Conn |-> {}]
    /\ out = {}
    /\ nCommands = 0
    /\ calls = <<>>
    /\ reactions = <<>>
    /\ uuids = 0

Broadcast(roomName, senderId) ==
    /\ out' = broadcast(Start, clients, heap, roomName, "channel_message", System, senderId).o
    /\ UNCHANGED <<wsState, currentUserId, clients, heap, typingUsers, bannedUsers,
                   users, channels, channel_members, messages, audit_logs, tasks,
                   received, nCommands, calls, reactions, uuids>>

BcastNext ==
    \E roomName \in BcastRooms, senderId \in {"u1", "u2", "u3", Null} :
        Broadcast(roomName, senderId)

BcastSpec == BcastInit /\ [][BcastNext]_vars

\* Refusals: connection 1 is the Admin admin-al in '#general', connection 2 is
\* bob in '#dev'.  They send requests that are refused: commands that are not
\* recognized, that need a role, that lack an argument or name what does not
\* exist; edits and deletions of messages of others or of none; joining a
\* channel that does not exist; deleting a channel of another or the default.
ErrContents ==
    {<<Slash, "foo">>, K1, Kb, <<Slash, Slash, "kick", Sp, "admin-al">>,
     <<Slash, Slash, "kick", Sp, "zed">>, <<Slash, Slash, "pin", Sp, "x">>,
     <<Slash, Slash, "pin", Sp, "x", Sp, "m9">>, <<Slash, Slash, "unpin">>,
     <<Slash, Slash, "status", Sp, "busy">>}

ErrArrives(c) ==
    \/ \E content \in ErrContents : SendCommand(c, content)
    \/ \E id \in {"m1", "m2", "m9"}, content \in {S("yo"), <<Sp>>} : EditMessage(c, id, content)
    \/ \E id \in {"m2", "m9"} : DeleteMessage(c, id)
    \/ JoinChannel(c, "#none")
    \/ \E channel \in {FALLBACK_CHANNEL, "#dev", "#none"} : DeleteChannel(c, channel)

ErrResumes(t) ==
    \/ \E ok \in BOOLEAN : PinSelect(t, ok)
    \/ PinUpdate(t, TRUE)
    \/ UnpinUpdate(t, TRUE)
    \/ Audit(t, TRUE)
    \/ EditSelect(t, TRUE)
    \/ EditUpdate(t, TRUE)
    \/ DeleteSelect(t, TRUE)
    \/ DeleteDelete(t, TRUE)
    \/ DeleteUnpin(t, TRUE)
    \/ DeleteAudit(t, TRUE)
    \/ JoinChannels(t, TRUE)
    \/ ChannelSelect(t, TRUE)
    \/ ChannelDelete(t, TRUE)
    \/ ChannelRoom(t)
    \/ ChannelLists(t)

ErrNext ==
    \/ (\E l \in PinLogins : Fresh(l[1]) /\ Login(l[1], l[2], l[3])) /\ UNCHANGED nCommands
    \/ (\E c \in {1, 2} : ErrArrives(c)) /\ Counted
    \/ (\E t \in tasks : LoginSelect(t, TRUE) \/ LoginChannels(t, TRUE) \/ LoginRoom(t))
           /\ UNCHANGED nCommands
    \/ (\E t \in tasks : ErrResumes(t)) /\ UNCHANGED nCommands

SpecErr == Init /\ [][ErrNext]_vars

\* Failing writes: connection 1 is the Admin admin-al in '#general',
\* connection 2 is bob in '#dev'; bob types, joins '#general' or starts a
\* direct message with the Admin, and the UPDATE of the room change may fail.
WriteResume ==
    \E t \in tasks :
        \/ LoginSelect(t, TRUE)
        \/ LoginChannels(t, TRUE)
        \/ LoginRoom(t)
        \/ JoinChannels(t, TRUE)
        \/ \E ok \in BOOLEAN : JoinUpdate(t, ok)
        \/ JoinRoom(t)
        \/ JoinList(t)

WriteNext ==
    \/ (\E l \in PinLogins : Fresh(l[1]) /\ Login(l[1], l[2], l[3])) /\ UNCHANGED nCommands
    \/ (\E isTyping \in BOOLEAN : TypingUpdate(2, isTyping)) /\ UNCHANGED nCommands
    \/ JoinChannel(2, FALLBACK_CHANNEL) /\ Counted
    \/ StartDm(2, "u1") /\ Counted
    \/ WriteResume /\ UNCHANGED nCommands

SpecWrite == Init /\ [][WriteNext]_vars

\* Direct-message rooms: connection 1 is the Admin admin-al in '#general',
\* connection 2 is bob in '#dev'; each may start a direct message with the
\* other, bob may join '#general', and both may disconnect.
DmResume ==
    \E t \in tasks :
        \/ LoginSelect(t, TRUE)
        \/ LoginChannels(t, TRUE)
        \/ LoginUpdate(t, TRUE)
        \/ LoginRoom(t)
        \/ JoinChannels(t, TRUE)
        \/ JoinUpdate(t, TRUE)
        \/ JoinRoom(t)
        \/ JoinList(t)

DmNext ==
    \/ (\E l \in PinLogins : Fresh(l[1]) /\ Login(l[1], l[2], l[3])) /\ UNCHANGED nCommands
    \/ (StartDm(1, "u2") \/ StartDm(2, "u1")) /\ Counted
    \/ JoinChannel(2, FALLBACK_CHANNEL) /\ Counted
    \/ (\E c \in {1, 2} : ClientClose(c)) /\ UNCHANGED nCommands
    \/ DmResume /\ UNCHANGED nCommands

SpecDm == Init /\ [][DmNext]_vars

\* getDmRoomName as a function: it is called with any two of the ids, and each
\* call is recorded with its result.
DmIds == {"u1", "u2", "u3"}

GetDmRoomName(id1, id2) ==
    /\ Len(calls) < MaxCalls
    /\ calls' = Append(calls, [id1 |-> id1, id2 |-> id2,
                               result |-> getDmRoomName(id1, id2)])
    /\ UNCHANGED <<wsState, currentUserId, clients, heap, typingUsers, bannedUsers,
                   users, channels, channel_members, messages, audit_logs, tasks,
                   received, out, nCommands, reactions, uuids>>

DmNameNext == \E id1 \in DmIds, id2 \in DmIds : GetDmRoomName(id1, id2)

DmNameSpec == Init /\ [][DmNameNext]_vars

\* Channel creation: connection 1 is the Admin admin-al in '#general',
\* connection 2 is bob in '#dev'; they create public and private channels
\* with a name that is too short, a new name, the name of an existing channel
\* and the name of a direct-message room; the INSERTs may fail.
CreateNames == {"x", "#ops", "#dev", "DM:u1-u2"}

CreateResume ==
    \E t \in tasks :
        \/ LoginSelect(t, TRUE)
        \/ LoginChannels(t, TRUE)
        \/ LoginRoom(t)
        \/ \E ok \in BOOLEAN : CreateInsert(t, ok)
        \/ \E ok \in BOOLEAN : CreateMember(t, ok)
        \/ CreateLists(t)
        \/ CreateTimer(t)
        \/ JoinChannels(t, TRUE)
        \/ JoinUpdate(t, TRUE)
        \/ JoinRoom(t)
        \/ JoinList(t)

CreateNext ==
    \/ (\E l \in PinLogins : Fresh(l[1]) /\ Login(l[1], l[2], l[3])) /\ UNCHANGED nCommands
    \/ (\E c \in {1, 2}, newChannelName \in CreateNames, isPrivate \in BOOLEAN :
            CreateChannel(c, newChannelName, isPrivate)) /\ Counted
    \/ CreateResume /\ UNCHANGED nCommands

SpecCreate == Init /\ [][CreateNext]_vars

\* Order: connection 1 is the Admin admin-al and connection 2 is the Moderator
\* mod-cy, both in '#general'; each sends "yo" to the room, and the INSERTs
\* are answered in any order.
OrderLogins == {<<1, "u1", S("admin-al")>>, <<2, "u3", S("mod-cy")>>}

OrderResume ==
    \E t \in tasks :
        \/ LoginSelect(t, TRUE)
        \/ LoginChannels(t, TRUE)
        \/ LoginRoom(t)
        \/ \E ok \in BOOLEAN : SendInsert(t, ok)

OrderNext ==
    \/ (\E l \in OrderLogins : Fresh(l[1]) /\ Login(l[1], l[2], l[3])) /\ UNCHANGED nCommands
    \/ (\E c \in {1, 2} : SendMessage(c, S("yo"), Null)) /\ UNCHANGED nCommands
    \/ OrderResume /\ UNCHANGED nCommands

SpecOrder == Init /\ [][OrderNext]_vars

\* Logging in again: connection 1 sends login as admin-al and as bob, at any
\* time and more than once; connection 2 sends login as bob; the connections
\* may be closed by their peers.
AgainLogins == {<<1, "u1", S("admin-al")>>, <<1, "u2", S("bob")>>, <<2, "u2", S("bob")>>}

AgainNext ==
    \/ (\E l \in AgainLogins : Login(l[1], l[2], l[3])) /\ UNCHANGED nCommands
    \/ (\E c \in {1, 2} : ClientClose(c)) /\ UNCHANGED nCommands
    \/ (\E c \in {1, 2} : CloseEvent(c)) /\ UNCHANGED nCommands
    \/ (\E t \in tasks : LoginSelect(t, TRUE) \/ LoginChannels(t, TRUE) \/ LoginRoom(t))
           /\ UNCHANGED nCommands

SpecAgain == Init /\ [][AgainNext]_vars

\* Private channels: connection 1 is the Admin admin-al in '#general', who
\* deletes '#dev', creates it again as a private channel and writes to his
\* room; connection 2 is bob, whose last seen channel is '#dev' and who logs
\* in at any time.
PrivResume ==
    \E t \in tasks :
        \/ LoginSelect(t, TRUE)
        \/ LoginChannels(t, TRUE)
        \/ LoginUpdate(t, TRUE)
        \/ LoginRoom(t)
        \/ ChannelSelect(t, TRUE)
        \/ ChannelDelete(t, TRUE)
        \/ ChannelRoom(t)
        \/ ChannelLists(t)
        \/ CreateInsert(t, TRUE)
        \/ CreateMember(t, TRUE)
        \/ CreateLists(t)
        \/ CreateTimer(t)
        \/ JoinChannels(t, TRUE)
        \/ JoinUpdate(t, TRUE)
        \/ JoinRoom(t)
        \/ JoinList(t)
        \/ SendInsert(t, TRUE)

PrivNext ==
    \/ (\E l \in PinLogins : Fresh(l[1]) /\ Login(l[1], l[2], l[3])) /\ UNCHANGED nCommands
    \/ DeleteChannel(1, "#dev") /\ Counted
    \/ CreateChannel(1, "#dev", TRUE) /\ Counted
    \/ SendMessage(1, S("yo"), Null) /\ UNCHANGED nCommands
    \/ PrivResume /\ UNCHANGED nCommands

SpecPriv == Init /\ [][PrivNext]_vars

\* ---------------------------------------------------------------- claims
\* The connections the registry's sessions of identity id point at.
SessionWs(cl, hp, id) == {hp[e.oid].ws : e \in {x \in Entries(cl) : x.id = id}}

\* The login of handler t goes on to install a session: the identity exists
\* and is not banned.
Installs(t) ==
    /\ t.userId \in DOMAIN users
    /\ users[t.userId].username \notin bannedUsers
    /\ ~users[t.userId].is_banned

Superseded == S("Another connection established with your user ID.")

\* C1: the registry never holds two sessions of one identity id; and the step
\* of a login that finds a session of its identity sends 'kicked' to the old
\* connection (when that connection is still open), closes it and leaves the
\* identity with exactly one session, the new connection's, all in one step.
C1_OneSessionPerIdentity ==
    /\ [](\A i, j \in DOMAIN clients : clients[i].id = clients[j].id => i = j)
    /\ [][\A t \in tasks :
            (LoginSelect(t, TRUE) /\ Installs(t) /\ Has(clients, t.userId)) =>
                LET old == heap[Get(clients, t.userId)].ws
                IN  /\ wsState[old] = "OPEN" => Msg(old, "kicked", Superseded) \in out'
                    /\ wsState'[old] # "OPEN"
                    /\ SessionWs(clients', heap', t.userId) = {t.ws}
                    /\ Cardinality({i \in DOMAIN clients' : clients'[i].id = t.userId}) = 1
         ]_vars

\* C1 witness: a connection has been told it was superseded, and the session
\* of an identity is the one of another connection.
C1_Witness ==
    \E m \in out :
        /\ m.type = "kicked" /\ m.data = Superseded
        /\ wsState[m.to] # "OPEN"
        /\ \E e \in Entries(clients) : heap[e.oid].ws # m.to /\ e.id = currentUserId[m.to]

\* C2: the close event of a connection the server has closed (kick, ban or
\* duplicate login), when none of the registry's sessions is that connection's,
\* leaves the registry and the typing sets as they are and sends nothing.
C2_CloseIdempotent ==
    [][\A c \in Conn :
          (/\ CloseEvent(c)
           /\ \A e \in Entries(clients) : heap[e.oid].ws # c) =>
                /\ clients' = clients
                /\ typingUsers' = typingUsers
                /\ out' = {}
      ]_vars

\* The command names of the spec, and the contents that are the marker
\* followed by one of them.
RecognizedNames == {"pin", "unpin", "kick", "ban", "status"}
Recognized(content) ==
    /\ Len(content) >= 2 /\ content[1] = Slash /\ content[2] \in RecognizedNames
    /\ Len(content) >= 3 => content[3] = Sp

UnknownCommand(m) == m.type = "error" /\ m.data # <<>> /\ m.data[1] = "Unknown command:"

\* C3: a send_message of an authenticated session whose content is the marker
\* followed by a recognized command name is not answered with the 'Unknown
\* command' error.
C3_RecognizedDispatched ==
    [][\A content \in CmdContents :
          (SendCommand(1, content) /\ Authenticated(1) /\ Recognized(content)) =>
              ~\E m \in out' : UnknownCommand(m)
      ]_vars

\* A kick or ban command: the marker followed by kick or ban, as the spec
\* writes it ("/kick bob") or with the marker doubled ("//kick bob"); its
\* command name, the user name it gives and the words after that name.
Doubled(content) == Len(content) >= 2 /\ content[2] = Slash
Words(content) == Split(IF Doubled(content) THEN Tail(Tail(content)) ELSE Tail(content))
CommandName(content) == Words(content)[1]
KickOrBan(content) ==
    content # <<>> /\ content[1] = Slash /\ CommandName(content) \in {S("kick"), S("ban")}
TargetName(content) == IF Len(Words(content)) >= 2 THEN Words(content)[2] ELSE <<>>
EventOf(content) == IF CommandName(content) = S("ban") THEN "banned" ELSE "kicked"

\* The session of connection c, and the roles that rank below Admin.
SessionOf(c) == heap[Get(clients, currentUserId[c])]
BelowAdmin == {"Moderator", "User", "Guest"}

PermissionDenied(m) ==
    m.type = "error" /\ m.data # <<>> /\
    m.data[1] \in {"Permission denied or missing username. Usage:",
                   "Permission denied. Requires Admin role."}

BanFlags(u) == [id \in DOMAIN u |-> u[id].is_banned]

\* C4: a kick or ban sent by a session whose role ranks below Admin is
\* answered with a permission-denied error to that connection, and the
\* registry, the ban set and the persisted ban flags stay as they are.
C4_BelowAdminDenied ==
    [][\A m \in ModCommands :
          (/\ SendCommand(m[1], m[2]) /\ Authenticated(m[1]) /\ KickOrBan(m[2])
           /\ SessionOf(m[1]).role \in BelowAdmin) =>
              /\ \E e \in out' : e.to = m[1] /\ PermissionDenied(e)
              /\ clients' = clients
              /\ bannedUsers' = bannedUsers
              /\ BanFlags(users') = BanFlags(users)
      ]_vars

\* The sessions of the user name a command gives, and the identities whose
\* persisted name it is.
SessionsNamed(name) == {e \in Entries(clients) : heap[e.oid].username = name}
IdentitiesNamed(name) == {u \in DOMAIN users : users[u].username = name}

\* C5: when an Admin's kick or ban that names a connected session whose role
\* is not Admin ends without a further await, and when the handler of such a
\* command ends after its audit write, the target connection has received
\* the 'kicked' or 'banned' event, is no longer open, and no session of the
\* registry is the target's.
C5_TargetRemoved ==
    [][/\ \A m \in ModCommands :
            (/\ SendCommand(m[1], m[2]) /\ Authenticated(m[1]) /\ KickOrBan(m[2])
             /\ SessionOf(m[1]).role = "Admin"
             /\ tasks' = tasks) =>
                \A e \in SessionsNamed(TargetName(m[2])) :
                    heap[e.oid].role # "Admin" =>
                        /\ EventOf(m[2]) \in received'[heap[e.oid].ws]
                        /\ wsState'[heap[e.oid].ws] # "OPEN"
                        /\ \A x \in Entries(clients') : heap'[x.oid].ws # heap[e.oid].ws
       /\ \A t \in tasks :
            (Audit(t, TRUE) \/ Audit(t, FALSE)) =>
                /\ wsState[heap[t.target].ws] = "OPEN" =>
                       (IF t.command = Cmd("ban") THEN "banned" ELSE "kicked")
                           \in received'[heap[t.target].ws]
                /\ wsState'[heap[t.target].ws] # "OPEN"
                /\ \A x \in Entries(clients') : heap'[x.oid].ws # heap[t.target].ws
      ]_vars

\* The words a ban command gives after the user name, joined by spaces.
SuppliedReason(args) == Join(Slice1(args))

\* C6: when the handler of an Admin's ban that gives a reason has banned a
\* connected target, the 'banned' event sent to the target carries that
\* reason, and that reason is the persisted ban_reason of the identity.
C6_BanReason ==
    [][\A t \in tasks :
          (/\ BanUpdate(t, TRUE) /\ t.target # NoOid
           /\ wsState[heap[t.target].ws] = "OPEN"
           /\ SuppliedReason(t.args) # <<>>) =>
              /\ Msg(heap[t.target].ws, "banned", SuppliedReason(t.args)) \in out'
              /\ \A u \in IdentitiesNamed(First(t.args)) :
                     users'[u].ban_reason = SuppliedReason(t.args)
      ]_vars

\* The login check rejects identity u: its name is in the ban set or its
\* persisted flag is set.
LoginRejected(bu, us, u) == us[u].username \in bu \/ us[u].is_banned

\* C7: once an Admin's ban of an identity that is not an Admin has completed
\* the identity is marked banned; an identity marked banned stays so; and the
\* login of an identity marked banned is answered with 'banned', its
\* connection is closed and the registry is left as it is.
C7_BannedLoginRejected ==
    [][/\ \A m \in ModCommands :
            (/\ SendCommand(m[1], m[2]) /\ Authenticated(m[1])
             /\ KickOrBan(m[2]) /\ EventOf(m[2]) = "banned"
             /\ SessionOf(m[1]).role = "Admin"
             /\ tasks' = tasks) =>
                \A u \in IdentitiesNamed(TargetName(m[2])) :
                    users[u].user_role # "Admin" => LoginRejected(bannedUsers', users', u)
       /\ \A u \in DOMAIN users :
            LoginRejected(bannedUsers, users, u) => LoginRejected(bannedUsers', users', u)
       /\ \A t \in tasks :
            (/\ LoginSelect(t, TRUE) /\ t.userId \in DOMAIN users
             /\ LoginRejected(bannedUsers, users, t.userId)) =>
                /\ wsState[t.ws] = "OPEN" => \E e \in out' : e.to = t.ws /\ e.type = "banned"
                /\ wsState'[t.ws] # "OPEN"
                /\ clients' = clients
      ]_vars

\* The user names of the identities that hold the Admin role.
AdminNames == {users[u].username : u \in {v \in DOMAIN users : users[v].user_role = "Admin"}}

\* C8: a kick or ban that names an identity holding the Admin role changes
\* neither the registry nor the ban set nor a persisted ban flag, and leaves
\* no handler to continue.
C8_AdminTargetRejected ==
    [][\A m \in ModCommands :
          (/\ SendCommand(m[1], m[2]) /\ Authenticated(m[1]) /\ KickOrBan(m[2])
           /\ TargetName(m[2]) \in AdminNames) =>
              /\ clients' = clients
              /\ bannedUsers' = bannedUsers
              /\ BanFlags(users') = BanFlags(users)
              /\ tasks' = tasks
      ]_vars

\* C9: the handler of a kick or ban of a connected target, resumed after its
\* audit write, leaves the target connection not open and the target's id out
\* of the registry whether or not the write failed, and when the write
\* succeeded the entry (kind, actor, target, room) is in audit_logs.
C9_AuditFailureDoesNotBlock ==
    [][\A t \in tasks :
          /\ Audit(t, TRUE) =>
                [action_type |-> IF t.command = Cmd("ban") THEN "USER_BAN" ELSE "USER_KICK",
                 actor_id |-> t.userId, target_id |-> t.targetId, room |-> t.room]
                    \in audit_logs'
          /\ (Audit(t, TRUE) \/ Audit(t, FALSE)) =>
                /\ wsState'[heap[t.target].ws] # "OPEN"
                /\ ~Has(clients', t.targetId)
      ]_vars

\* The role order of the spec, lowest first, and a role's place in it.
RoleOrder == <<"Guest", "User", "Moderator", "Admin">>
Rank(role) == CHOOSE i \in DOMAIN RoleOrder : RoleOrder[i] = role

\* C10: every call of hasPermission returned TRUE exactly when the role ranks
\* at or above the required role in the order Admin > Moderator > User > Guest;
\* and among the calls made for one required role, a role ranked below a
\* denied role was denied too.
C10_PermissionMonotonic ==
    /\ \A i \in DOMAIN calls :
           calls[i].result = (Rank(calls[i].userRole) >= Rank(calls[i].requiredRole))
    /\ \A i, j \in DOMAIN calls :
           (/\ calls[i].requiredRole = calls[j].requiredRole
            /\ ~calls[i].result
            /\ Rank(calls[j].userRole) < Rank(calls[i].userRole)) => ~calls[j].result

\* C10 witness: for one required role, a role was denied, a role ranked below
\* it was checked too, and the required role itself was permitted.
C10_Witness ==
    \E i, j, k \in DOMAIN calls :
        /\ calls[i].requiredRole = calls[j].requiredRole
        /\ calls[k].requiredRole = calls[i].requiredRole
        /\ ~calls[i].result
        /\ Rank(calls[j].userRole) < Rank(calls[i].userRole)
        /\ calls[k].userRole = calls[k].requiredRole /\ calls[k].result

\* Stored message rows by id.
Stored(id) == RowsById(messages, id)

\* C11: every stored message has its thread-root flag true if and only if
\* its parent reference is null.
C11_ThreadRootIffNoParent ==
    \A m \in messages : m.is_thread_root <=> (m.parent_message_id = Null)

\* The error events sent to connection c in this step.
ErrorsTo(c) == {m \in out' : m.to = c /\ m.type = "error"}

\* C12: when the lookup of an edit_message with non-empty content finds the
\* message in the requester's room, the edit is accepted (the UPDATE is made)
\* if and only if the requester is the author and the message is within the
\* edit window, or the requester's role is Moderator or above; a rejected edit
\* is answered with an error event and leaves the stored messages unchanged.
C12_EditPermission ==
    [][\A t \in tasks :
          (/\ EditSelect(t, TRUE)
           /\ t.args[2] # <<>>
           /\ t.room = heap[t.client].channel
           /\ Stored(t.args[1][1]) # {}
           /\ \A m \in Stored(t.args[1][1]) : m.channel_name = t.room)
          => LET accepted == /\ [t EXCEPT !.pc = "update"] \in tasks'
                                 /\ ErrorsTo(t.ws) = {}
                 role == heap[t.client].role
                 allowed == \A m \in Stored(t.args[1][1]) :
                               \/ m.author_id = t.userId /\ ~m.old
                               \/ role \in {"Moderator", "Admin"}
             IN  /\ accepted <=> allowed
                 /\ ~accepted => ErrorsTo(t.ws) # {} /\ messages' = messages]_vars

\* The rows of message id in the room handler t took from its session.
InRoomOf(t) == {m \in Stored(t.args[1][1]) : m.channel_name = t.room}

\* C13: when the lookup of a delete_message answers, the request goes on to
\* the DELETE if and only if the message is stored in the requester's room and
\* the requester is its author or has role Moderator or above; any other
\* request is answered with an error event and leaves the stored messages, the
\* pinned references and the audit log unchanged; and once the DELETE has
\* answered the message is no longer stored.
C13_DeletePermission ==
    [][/\ \A t \in tasks :
            (DeleteSelect(t, TRUE) /\ t.room = heap[t.client].channel)
            => LET accepted == /\ [t EXCEPT !.pc = "delete"] \in tasks'
                               /\ ErrorsTo(t.ws) = {}
                   allowed == /\ InRoomOf(t) # {}
                              /\ \A m \in InRoomOf(t) :
                                    \/ m.author_id = t.userId
                                    \/ heap[t.client].role \in {"Moderator", "Admin"}
               IN  /\ accepted <=> allowed
                   /\ ~accepted => /\ ErrorsTo(t.ws) # {}
                                   /\ messages' = messages
                                   /\ channels' = channels
                                   /\ audit_logs' = audit_logs
       /\ \A t \in tasks :
            DeleteDelete(t, TRUE) => \A m \in messages' : m.id # t.args[1][1]]_vars

\* The Moderator has deleted bob's message m1, and bob's request to delete a
\* message of another author has been rejected.
C13_Witness ==
    /\ Stored("m1") = {}
    /\ \E a \in audit_logs : a.action_type = "MESSAGE_DELETE" /\ a.actor_id = "u3"
    /\ \E m \in out : m.to = 2 /\ m.type = "error" /\ m.data = ErrDelete

\* C14: when the UPDATE channels of a delete_message that removed message M
\* from room R (the requester's room when the request arrived) has answered,
\* R's pinned reference is null if it pointed at M and unchanged otherwise,
\* and the pinned reference of every other room is unchanged.
C14_DeleteClearsPin ==
    [][\A t \in tasks :
          DeleteUnpin(t, TRUE)
          => LET M == t.args[1][1]
                 R == t.room
             IN  /\ channels'[R].pinned_message_id =
                        IF channels[R].pinned_message_id = M
                        THEN Null ELSE channels[R].pinned_message_id
                 /\ \A r \in DOMAIN channels \ {R} :
                        channels'[r].pinned_message_id = channels[r].pinned_message_id]_vars

\* The pin command with the message id m1 as its single argument, as the spec
\* writes it and with the marker doubled.
SinglePin == {<<Slash, "pin", Sp, "m1">>, <<Slash, Slash, "pin", Sp, "m1">>}

\* C15: a pin command of the Admin whose single argument is the id of a
\* message stored in the Admin's current room is not answered with an error
\* event, and its handler goes on to look the message up.
C15_PinSingleArgument ==
    [][\A content \in SinglePin :
          (/\ SendCommand(1, content)
           /\ Authenticated(1)
           /\ heap[Get(clients, currentUserId[1])].role = "Admin"
           /\ \E m \in Stored("m1") :
                 m.channel_name = heap[Get(clients, currentUserId[1])].channel)
          => /\ ErrorsTo(1) = {}
             /\ \E t \in tasks' \ tasks : t.pc = "pin_select"
      ]_vars

\* The aggregated reactions as a map from emoji to the set of identity ids,
\* and whether no emoji and no identity under an emoji occurs twice in them.
AsMap(acc) ==
    [e \in {acc[i].emoji : i \in DOMAIN acc} |->
        UNION {{acc[i].users[k] : k \in DOMAIN acc[i].users} :
                  i \in {j \in DOMAIN acc : acc[j].emoji = e}}]

NoDuplicates(acc) ==
    /\ \A i, j \in DOMAIN acc : acc[i].emoji = acc[j].emoji => i = j
    /\ \A i \in DOMAIN acc :
          \A k, l \in DOMAIN acc[i].users : acc[i].users[k] = acc[i].users[l] => k = l

\* C16: when the INSERT of an add_reaction answers, the aggregated reactions
\* of the message hold the identity under the emoji (if the message is stored)
\* without any duplicate; and if the same (message, identity, emoji) had been
\* added before, the aggregated map is the one it was after that first add.
C16_AddReactionIdempotent ==
    [][\A t \in tasks :
          (ReactionWrite(t, TRUE) /\ t.kind = "add_reaction")
          => LET id == t.args[1][1]
                 emoji == t.args[2][1]
                 before == updatedReactions(reactions, id)
                 after == updatedReactions(reactions', id)
             IN  /\ NoDuplicates(after)
                 /\ Stored(id) # {} =>
                        emoji \in DOMAIN AsMap(after) /\ t.userId \in AsMap(after)[emoji]
                 /\ HasRow(reactions, ReactionRow(id, t.userId, emoji)) =>
                        AsMap(after) = AsMap(before)
      ]_vars

\* mod-cy, who never removes a reaction, has added two reactions to m1, both
\* have been answered, and the only row of mod-cy is the one of emoji e1: the
\* same reaction was added twice.
C16_Witness ==
    /\ nCommands = 2
    /\ tasks = {}
    /\ LET Mine(r) == r.user_id = "u3"
       IN  SelectSeq(reactions, Mine) = <<ReactionRow("m1", "u3", "e1")>>
    /\ \E m \in out : m.type = "message_reacted"

\* The registered sessions whose room differs before and after the step.
Moved == {e \in Entries(clients') :
             /\ e.oid \in DOMAIN heap
             /\ heap[e.oid].channel # heap'[e.oid].channel}

\* The steps that change a session's room: join_channel and start_dm when
\* they set client.channel, delete_channel when it moves the channel's sessions.
RoomChangeStep ==
    \/ \E t \in tasks : JoinChannels(t, TRUE)
    \/ StartDm(2, "u1")
    \/ \E t \in tasks : ChannelSelect(t, TRUE)

\* C17: after every step of join_channel, start_dm or delete_channel that
\* changes the room of a registered session from R to R', the identity is not
\* in R's presence set, its display name is not in R's typing set, and the
\* identity is in R''s presence set.
C17_RoomChange ==
    [][RoomChangeStep =>
          \A e \in Moved :
              LET R == heap[e.oid].channel
                  Rnew == heap'[e.oid].channel
              IN  /\ e.id \notin getActiveUsersInRoom(clients', heap', R)
                  /\ heap[e.oid].username \notin typingUsers'[R]
                  /\ e.id \in getActiveUsersInRoom(clients', heap', Rnew)
      ]_vars

\* The sessions whose identity the step removes from the registry.
Removed == {e \in Entries(clients) : ~Has(clients', e.id)}

\* The connections of the sessions that are in room after the step and whose
\* socket is open.
Remaining(room) ==
    {heap'[e.oid].ws : e \in {x \in InRoom(clients', heap', room) :
                                 wsState'[heap'[x.oid].ws] = "OPEN"}}

\* C18: after every step that removes an identity's session from the registry
\* (close, kick, ban), the session's display name is not in the typing set of
\* the room it was in, and if it was, the sessions remaining in that room are
\* sent the typing_status of the room.
C18_DisconnectClearsTyping ==
    [][\A e \in Removed :
          LET room == heap[e.oid].channel
              username == heap[e.oid].username
          IN  /\ username \notin typingUsers'[room]
              /\ username \in typingUsers[room] =>
                    \A c \in Remaining(room) :
                        \E m \in out' : /\ m.to = c /\ m.type = "typing_status"
                                        /\ m.typingUsers = typingUsers'[room]
      ]_vars

\* C19: after every step that removes an identity's session from the registry
\* (close, kick, ban), each session remaining in the room the removed session
\* was bound to is sent a user_presence event that lists that room's members
\* after the step, the removed identity not among them.
C19_PresenceOnRemoval ==
    [][\A e \in Removed :
          LET room == heap[e.oid].channel
          IN  \A c \in Remaining(room) :
                  \E m \in out' : /\ m.to = c /\ m.type = "user_presence"
                                  /\ m.users = getActiveUsersInRoom(clients', heap', room)
                                  /\ e.id \notin m.users
      ]_vars

\* Connection c has not completed a successful login: no session of the
\* registry is its own, and it has sent no login or its login is suspended in
\* the identity lookup.
NotLoggedIn(c) ==
    /\ \A e \in Entries(clients) : heap[e.oid].ws # c
    /\ \/ currentUserId[c] = Null
       \/ \E t \in tasks : t.kind = "login" /\ t.ws = c /\ t.pc = "select"

\* A typing_update or send_message event of connection c.
OtherEvent(c) ==
    \/ \E isTyping \in BOOLEAN : TypingUpdate(c, isTyping)
    \/ SendMessage(c, S("yo"), Null)

\* C20: a typing_update or send_message event of a connection that has not
\* completed a successful login is answered with the 'Authentication required'
\* error and changes neither the registry, nor the typing sets, nor the
\* persisted data, nor starts a handler.
C20_UnauthenticatedRejected ==
    [][\A c \in Conn :
          (OtherEvent(c) /\ NotLoggedIn(c))
          => /\ \E m \in ErrorsTo(c) : m.data = ErrAuth
             /\ clients' = clients
             /\ typingUsers' = typingUsers
             /\ messages' = messages
             /\ users' = users
             /\ tasks' = tasks
      ]_vars

\* The login check fails for the id: no row has it, or its identity is banned.
AuthFails(id) == id \notin DOMAIN users \/ LoginRejected(bannedUsers, users, id)

\* The sessions of the registry, each with what its object holds.
Sessions(cl, hp) == {<<e.id, hp[e.oid]>> : e \in Entries(cl)}

\* C21: the lookup step of a login that names an unknown or a banned identity
\* closes that connection and leaves the registry and its sessions as they
\* are; and so does the close event of a connection that named such an
\* identity and has no session of its own.
C21_AuthFailureLeavesRegistry ==
    [][/\ \A t \in tasks :
            (LoginSelect(t, TRUE) /\ AuthFails(t.userId))
            => /\ wsState'[t.ws] # "OPEN"
               /\ Sessions(clients', heap') = Sessions(clients, heap)
       /\ \A c \in Conn :
            (/\ CloseEvent(c)
             /\ currentUserId[c] # Null /\ AuthFails(currentUserId[c])
             /\ \A e \in Entries(clients) : heap[e.oid].ws # c)
            => /\ Sessions(clients', heap') = Sessions(clients, heap)
               /\ out' = {}
      ]_vars

\* The channels the identity may enter, as the tables have them.
AuthorizedList(id) ==
    {ch \in DOMAIN channels :
        ~channels[ch].is_private \/ <<ch, id>> \in channel_members}

\* The login handler t has answered login_success in this step.
LoginSucceeds(t) ==
    /\ LoginRoom(t)
    /\ \E m \in out' : m.to = t.ws /\ m.type = "login_success"

Marked(content) == content # <<>> /\ content[1] = Slash

\* The content of a channel_message event (its data is the id, then the content).
ContentOf(e) == Tail(e.data)

DmRooms == {"DM:u1-u2", "DM:u1-u3", "DM:u2-u3"}

\* The channel_message events of a step that carry a message (the notices of
\* the server carry none).
Authored(o) == {e \in o : e.type = "channel_message" /\ e.data # System}

\* This step is the arrival of "yo" from the logged-in connection c for the
\* room: a send_message of a session of that room, or a send_dm that names it.
SentTo(c, room) ==
    /\ Authenticated(c)
    /\ \/ /\ heap[Get(clients, currentUserId[c])].channel = room
          /\ \E parentId \in {Null, "m9"} : SendMessage(c, S("yo"), parentId)
       \/ SendDm(c, room, S("yo"), Null)

\* C24: no stored message is of a direct-message room; a message for such a
\* room is echoed and broadcast at once and nothing is written; a message for
\* a channel room sends nothing until its INSERT is answered; the answered
\* INSERT that stored the row echoes the message to the sender, the one that
\* failed stores and sends no message; and every message event of a step is
\* either of a row written in that step or of a direct-message room.
C24_PersistThenBroadcast ==
    [][/\ \A m \in messages' : m.channel_name \notin DmRooms
       /\ \A c \in Conn, room \in Rooms :
            SentTo(c, room)
            => IF room \in DmRooms
               THEN /\ messages' = messages /\ tasks' = tasks
                    /\ \E e \in Authored(out') : e.to = c /\ ContentOf(e) = S("yo")
               ELSE /\ messages' = messages /\ Authored(out') = {}
                    /\ \E t \in tasks' \ tasks :
                          t.kind = "send_message" /\ t.pc = "insert" /\ t.room = room
       /\ \A t \in tasks :
            (\E ok \in BOOLEAN : SendInsert(t, ok))
            => LET id == t.args[2][1] IN
               /\ (SendInsert(t, TRUE)
                      /\ InsertAccepted(t.room, t.userId, ParentOf(t.args[3])))
                     => RowsIn(messages', id, t.room) # {}
               /\ IF RowsIn(messages', id, t.room) # {}
                  THEN /\ RowsById(messages, id) = {}
                       /\ \E e \in Authored(out') : e.to = t.ws /\ e.data = S(id) \o t.args[1]
                  ELSE messages' = messages /\ Authored(out') = {}
       /\ \A e \in Authored(out') :
            \/ RowsById(messages', e.data[1]) # {} /\ RowsById(messages, e.data[1]) = {}
            \/ \E c \in Conn, room \in DmRooms : SentTo(c, room)
      ]_vars

\* bob's first message is stored in a channel, and his second one, for the
\* direct-message room, has just been echoed to him and is not stored.
C24_Witness ==
    /\ RowsById(messages, "n1") # {}
    /\ RowsById(messages, "n2") = {}
    /\ \E e \in Authored(out) : e.to = 2 /\ e.data = <<"n2">> \o S("yo")

\* C25: a call of broadcast for a room sends the event to the connection of
\* a session exactly when the session's room is that room, its identity is
\* not the excluded one and its connection is open; it sends nothing else,
\* and it changes no connection, no session and no entry of the registry.
C25_BroadcastDelivery ==
    [][\A roomName \in BcastRooms, senderId \in {"u1", "u2", "u3", Null} :
          Broadcast(roomName, senderId)
          => /\ \A e \in Entries(clients) :
                   (\E m \in out' : m.to = heap[e.oid].ws)
                   <=> /\ heap[e.oid].channel = roomName
                       /\ e.id # senderId
                       /\ wsState[heap[e.oid].ws] = "OPEN"
             /\ \A m \in out' :
                   /\ m.type = "channel_message" /\ m.data = System
                   /\ \E e \in Entries(clients) : heap[e.oid].ws = m.to
             /\ wsState' = wsState /\ clients' = clients /\ heap' = heap
      ]_vars

\* The three sessions are in '#general', the connection of u3 is closed, and
\* a broadcast to the room that excludes u2 has reached connection 1 only.
C25_Witness ==
    /\ \A e \in Entries(clients) : heap[e.oid].channel = FALLBACK_CHANNEL
    /\ wsState = [c \in Conn |-> IF c = 3 THEN "CLOSED" ELSE "OPEN"]
    /\ out = {Msg(1, "channel_message", System)}

\* The error events of a refusal: every error but those of a failed query and
\* of the authentication and login checks.
Refusals(o) ==
    {e \in o : /\ e.type = "error"
               /\ e.data \notin {ErrInternal, ErrAuth, ErrInvalidUser, ErrPinDb,
                                 ErrDeleteChannel}}

C27_FailedWriteAbandons ==
    [][\A t \in tasks :
          JoinUpdate(t, FALSE)
          => /\ ErrorsTo(t.ws) # {}
             /\ \A m \in out' : m.type \notin {"channel_change", "channel_message",
                                               "user_presence"}
             /\ heap'[t.client].channel = t.room
      ]_vars

\* C28: a send_message of a logged-in connection whose content is only
\* blanks is answered with an error event to the sender, and nothing is
\* stored, left to be stored or broadcast.
C28_EmptyContentRejected ==
    [][\A c \in MsgConn, parentId \in {Null, "m1"} :
          (Authenticated(c) /\ SendMessage(c, <<Sp>>, parentId))
          => /\ ErrorsTo(c) # {}
             /\ messages' = messages /\ tasks' = tasks
             /\ Authored(out') = {}
      ]_vars

\* The notices of the server among the events of a step.
Notices(o) == {e \in o : e.type = "channel_message" /\ e.data = System}

\* C29: in a step of a login, of a room change or of a close, every notice
\* of the server goes to a connection whose session, as the step found it, is
\* in a channel: no connection gets one for a direct-message room.
C29_NoNoticeInDmRoom ==
    [][\A e \in Notices(out') :
          \E x \in Entries(clients) :
             /\ heap[x.oid].ws = e.to
             /\ heap[x.oid].channel \notin DmRooms
      ]_vars

\* Both sessions were in the direct-message room and bob's connection has
\* just been closed: his session is removed and the Admin, who is still in
\* the room, has been sent the presence list and no notice.
C29_Witness ==
    /\ \A x \in Entries(clients) : x.id = "u1" /\ heap[x.oid].channel = "DM:u1-u2"
    /\ clients # <<>>
    /\ wsState[2] = "CLOSED"
    /\ nCommands = MaxCommands
    /\ \E e \in out : e.to = 1 /\ e.type = "user_presence"
    /\ Notices(out) = {}

\* C30: whenever getDmRoomName has been called with two ids and with the
\* same two ids the other way round, the two calls gave the same name; and
\* the names of different pairs of ids differ.
C30_DmRoomNameSymmetric ==
    \A i, j \in DOMAIN calls :
        /\ (calls[i].id1 = calls[j].id2 /\ calls[i].id2 = calls[j].id1)
              => calls[i].result = calls[j].result
        /\ calls[i].result = calls[j].result
              => {calls[i].id1, calls[i].id2} = {calls[j].id1, calls[j].id2}

\* The name was asked for by u2 with u1 and by u1 with u2, and both calls
\* gave the name of the room the sessions use.
C30_Witness ==
    /\ Len(calls) = 2
    /\ calls[1] = [id1 |-> "u2", id2 |-> "u1", result |-> "DM:u1-u2"]
    /\ calls[2] = [id1 |-> "u1", id2 |-> "u2", result |-> "DM:u1-u2"]

\* C31: no row of the table channels has the name of a direct-message room.
C31_NoDmChannelRecord == \A ch \in DOMAIN channels : ch \notin DmRooms

\* C32: when a connection is closed and no handler of its events is
\* suspended any more, no session of the registry has that connection.
C32_ClosedConnectionHasNoSession ==
    \A c \in Conn :
        (wsState[c] = "CLOSED" /\ \A t \in tasks : t.ws # c)
        => \A e \in Entries(clients) : heap[e.oid].ws # c

\* The ids of the messages the events of a step carry.
IdsIn(o) == {e.data[1] : e \in Authored(o)}

\* C33: the answer of a handler's INSERT stores the row of that handler's
\* message and sends that message and no other, and it leaves every other
\* handler that awaits its INSERT suspended, also one whose message has an
\* earlier timestamp; so a message may be broadcast before one that precedes
\* it in the stored order.
C33_BroadcastAtOwnInsert ==
    [][\A t \in tasks :
          (SendInsert(t, TRUE) /\ t.room \in DOMAIN channels /\ t.userId \in DOMAIN users)
          => LET id == t.args[2][1] IN
             /\ {m.id : m \in messages'} = {m.id : m \in messages} \cup {id}
             /\ RowsById(messages, id) = {}
             /\ IdsIn(out') = {id}
             /\ \A u \in tasks \ {t} : u \in tasks'
      ]_vars

\* The messages n1 (of the Admin) and n2 (of the Moderator) are stored in
\* '#general', n1 with the earlier timestamp; n2 was stored and broadcast in
\* an earlier step, and n1 has just been broadcast to the Moderator.
C33_Witness ==
    /\ \E a \in RowsIn(messages, "n1", FALLBACK_CHANNEL),
          b \in RowsIn(messages, "n2", FALLBACK_CHANNEL) :
             /\ a.author_id # b.author_id
             /\ Timestamp(a.id) < Timestamp(b.id)
    /\ IdsIn(out) = {"n1"}
    /\ \E e \in Authored(out) : e.to = 2

\* C34: no two entries of the registry have sessions of the same connection.
C34_OneSessionPerConnection ==
    \A i, j \in DOMAIN clients :
        i # j => heap[clients[i].oid].ws # heap[clients[j].oid].ws


\* C35: whenever no event handler is in flight, every session of the registry
\* is bound to a room that exists, a persisted channel or a direct-message
\* room; a join_channel interleaved with a delete_channel of the same channel
\* leaves no session bound to the deleted channel.
C35_IdleSessionsInExistingRooms ==
    tasks = {} =>
        \A e \in Entries(clients) :
            heap[e.oid].channel \in DOMAIN channels \cup DmRooms


\* C36: in every reachable state, also while a login is suspended, a session
\* is bound to a private channel only if its identity is a member of that
\* channel.
C36_PrivateRoomOnlyForMembers ==
    \A e \in Entries(clients) :
        LET channel == heap[e.oid].channel
        IN  (channel \in DOMAIN channels /\ channels[channel].is_private)
                => <<channel, e.id>> \in channel_members


\* The rooms the sessions of identity id are bound to.
RoomsOf(id) == {heap[e.oid].channel : e \in {x \in Entries(clients) : x.id = id}}

\* The direct-message rooms identity id is a participant of.
DmRoomsOf(id) ==
    IF id \in DmIds THEN {getDmRoomName(id, other) : other \in DmIds \ {id}} ELSE {}

\* C37: a chat message is stored, and broadcast, only in the room its sender
\* is bound to at that step or in a direct-message room the sender is a
\* participant of.
C37_MessageOnlyInSendersRoom ==
    [][/\ \A m \in messages' \ messages :
             m.channel_name \in RoomsOf(m.author_id) \cup DmRoomsOf(m.author_id)
       /\ \A c \in Conn, channel \in SendRooms :
             (SendDm(c, channel, S("yo"), Null) /\ Authored(out') # {})
                 => channel \in RoomsOf(currentUserId[c]) \cup DmRoomsOf(currentUserId[c])]_vars


\* C38: whenever no event handler is in flight, the pinned reference of each
\* channel is null or the id of a message stored in that channel.
C38_IdlePinIsStoredMessage ==
    tasks = {} =>
        \A channel \in DOMAIN channels :
            \/ channels[channel].pinned_message_id = Null
            \/ \E m \in messages :
                  /\ m.id = channels[channel].pinned_message_id
                  /\ m.channel_name = channel


\* The events that tell a connection which room it is in.
RoomEvents(o) == {e \in o : e.type \in {"initial_state", "channel_change"}}

\* C39: when a step delivers an initial_state or channel_change event to a
\* connection and leaves no handler of that connection in flight, the room the
\* event names is the room the connection's session is bound to.
C39_LastRoomEventIsSessionRoom ==
    [][\A e \in RoomEvents(out') :
          (\A t \in tasks' : t.ws # e.to)
              => \E x \in Entries(clients') :
                    /\ heap'[x.oid].ws = e.to
                    /\ S(heap'[x.oid].channel) = e.data]_vars


\* C40: a step of delete_channel that removes a channel removes an existing
\* channel other than '#general', at the request of its creator or of an
\* Admin; '#general' is still there, and after the step no session is bound
\* to the deleted channel.
C40_DeleteChannelMovesEverySession ==
    [][\A t \in tasks :
          (ChannelDelete(t, TRUE) /\ DOMAIN channels' # DOMAIN channels)
              => LET channelToDelete == t.args[1][1]
                 IN  /\ channelToDelete \in DOMAIN channels \ {FALLBACK_CHANNEL}
                     /\ \/ hasPermission(heap[t.client].role, "Admin")
                        \/ channels[channelToDelete].created_by = t.userId
                     /\ FALLBACK_CHANNEL \in DOMAIN channels'
                     /\ \A e \in Entries(clients') :
                           heap'[e.oid].channel # channelToDelete]_vars

====
